---- MODULE Spec2Model ----
(***************************************************************************)
(* DataVisualizerPro: the chart builder (utils/chart_generator.py), the    *)
(* file loader (utils/file_handler.py), the analyzer                       *)
(* (utils/data_analyzer.py) and the session persistence of                 *)
(* app_postgres.py, as state machines.                                     *)
(*                                                                         *)
(* Conventions.  Python's None is the empty tuple and a present value v is *)
(* the one-element tuple <<v>>.  A call that raises is the record          *)
(* [raised |-> TRUE, error |-> e]; a call that returns v is                *)
(* [raised |-> FALSE, value |-> v].  Fractions are kept in whole units     *)
(* that each section names (tenths, quarters, hundredths).                 *)
(***************************************************************************)
EXTENDS Integers, Sequences, FiniteSets, TLC

VARIABLES
    \* the chart builder on its own: a frame, and the last request with its answer
    df, fig,
    \* st.session_state of app_postgres.py
    user, data, analysis, charts, current_session_id, user_sessions,
    \* the sessions table, and what the last script run reported
    db, message,
    \* the chart widgets: type, columns and options the user has selected
    widgets,
    \* the loader on its own: the uploaded file, and what load_file answered
    uploaded_file, loaded

chartVars == <<df, fig>>
appVars == <<user, data, analysis, charts, current_session_id, user_sessions, db, message,
             widgets>>
loadVars == <<uploaded_file, loaded>>
vars == <<df, fig, user, data, analysis, charts, current_session_id, user_sessions, db,
          message, widgets, uploaded_file, loaded>>

(***************************************************************************)
(* Values.  A Python value and a JSON value carry their type in the field  *)
(* t and j; these two fields are declared before any other so that values  *)
(* of different types are told apart by their type.                        *)
(***************************************************************************)
\* None and null, the two values that are nothing but their type
PyNone == [t |-> "NoneType"]
\* NaN, the float pandas fills an absent cell with
NaN == [t |-> "float"]
JNull == [j |-> "null"]

\* Python values: a frame, a list, a dict (keys in insertion order), text, a
\* number, a truth value
DataFrame(columns, rows) == [t |-> "DataFrame", columns |-> columns, rows |-> rows]
PyList(items) == [t |-> "list", v |-> items]
PyDict(keys, members) == [t |-> "dict", keys |-> keys, v |-> members]
PyStr(v) == [t |-> "str", v |-> v]
PyInt(v) == [t |-> "int", v |-> v]
PyBool(v) == [t |-> "bool", v |-> v]
\* a float that is a number, in hundredths
PyFloat(h) == [t |-> "float", v |-> h]
\* numpy.bool_, what a comparison of numpy numbers gives
NpBool(v) == [t |-> "bool_", v |-> v]

\* JSON values: text, numbers, arrays and objects (keys in document order)
JString(v) == [j |-> "string", v |-> v]
JNumber(v) == [j |-> "number", v |-> v]
\* a JSON number with a fraction, in hundredths, and the NaN json.dumps writes
JReal(h) == [j |-> "real", v |-> h]
JNaN == [j |-> "NaN"]
JBool(v) == [j |-> "bool", v |-> v]
JArray(items) == [j |-> "array", items |-> items]
JObject(keys, members) == [j |-> "object", keys |-> keys, members |-> members]

None == <<>>
Some(v) == <<v>>

Raise(e) == [raised |-> TRUE, error |-> e]
Return(v) == [raised |-> FALSE, value |-> v]

(***************************************************************************)
(* Bounds of the model.                                                    *)
(***************************************************************************)
\* the largest number of distinct x values a generated dataset has
MaxCats == 12
\* the most charts a dashboard holds
MaxCharts == 2
\* the most rows the sessions table holds
MaxSessions == 2

(***************************************************************************)
(* Program constants of generate_chart.                                    *)
(***************************************************************************)
\* if unique_categories > 10
CollapseThreshold == 10
\* top_n = 9
top_n == 9
\* title_x=0.5, in tenths
TitleXCenter == 5
\* hole=0.4, in tenths
DonutHole == 4
\* hole = 0 of the rebuilt pie; px.pie without hole draws no hole either
NoHole == 0

(***************************************************************************)
(* Data frames.  A frame is its column names and its rows; a row maps each *)
(* column name to a cell, which is text, an integer, None or NaN.  Column  *)
(* "name" holds text and column "sales" holds integers.                    *)
(***************************************************************************)
CatNames == <<"A", "B", "C", "D", "E", "F", "G", "H", "I", "J", "K", "L", "M", "N">>

\* the position of a text value in the ordering groupby sorts its keys by
CatIdx(s) == CHOOSE i \in 1..Len(CatNames) : CatNames[i] = s

Columns == <<"name", "sales">>

\* the summed y of the two last categories ranges over these
TailVals == {0 - 4, 0, 4, 9}

\* n categories, in descending key order so that grouping has to sort; the
\* two last categories carry a and b; dup > 0 appends a second row for A
GenRows(n, a, b, dup) ==
    LET val(i) == IF i = n THEN b ELSE IF i = n - 1 THEN a ELSE i + 3
        base == [k \in 1..n |-> [name |-> PyStr(CatNames[n + 1 - k]),
                                 sales |-> PyInt(val(n + 1 - k))]]
    IN IF dup > 0 THEN Append(base, [name |-> PyStr("A"), sales |-> PyInt(dup)]) ELSE base

\* name,sales / A,10 / B,20 / A,5
ExampleRows ==
    << [name |-> PyStr("A"), sales |-> PyInt(10)], [name |-> PyStr("B"), sales |-> PyInt(20)],
       [name |-> PyStr("A"), sales |-> PyInt(5)] >>

Frame(rows) == DataFrame(Columns, rows)

Datasets ==
    {Frame(ExampleRows)} \cup
    {Frame(GenRows(n, a, b, dup)) : n \in 1..MaxCats, a \in TailVals, b \in TailVals, dup \in {0, 5}}

HasColumn(d, c) == \E i \in 1..Len(d.columns) : d.columns[i] = c

\* pd.isnull of a cell
isnull(cell) == cell = PyNone \/ cell = NaN

\* the distinct values of column c, nulls left out
Distinct(d, c) == {d.rows[i][c].v : i \in {n \in 1..Len(d.rows) : ~isnull(d.rows[n][c])}}

\* df[c].nunique()
nunique(d, c) == Cardinality(Distinct(d, c))

RECURSIVE SumSeq(_)
SumSeq(s) == IF s = <<>> THEN 0 ELSE Head(s) + SumSeq(Tail(s))

\* the values of column c in the rows whose column x holds k, in row order;
\* a sum skips the null cells
RECURSIVE CellsOf(_, _, _, _)
CellsOf(rows, x, k, c) ==
    IF rows = <<>> THEN <<>>
    ELSE IF ~isnull(Head(rows)[x]) /\ Head(rows)[x].v = k /\ ~isnull(Head(rows)[c])
    THEN <<Head(rows)[c].v>> \o CellsOf(Tail(rows), x, k, c)
    ELSE CellsOf(Tail(rows), x, k, c)

\* the keys of a grouping, sorted as groupby sorts them
RECURSIVE SortedKeys(_)
SortedKeys(ks) ==
    IF ks = {} THEN <<>>
    ELSE LET k == CHOOSE a \in ks : \A b \in ks : CatIdx(a) <= CatIdx(b)
         IN <<k>> \o SortedKeys(ks \ {k})

\* groupby_sum without the aggregation: one row per row of the frame
groupby_rows(d, x, y) ==
    IF ~HasColumn(d, x) \/ ~HasColumn(d, y) THEN Raise("KeyError")
    ELSE Return([i \in 1..Len(d.rows) |-> [name |-> d.rows[i][x].v, value |-> d.rows[i][y].v]])

\* df.groupby(x)[y].sum().reset_index(): a KeyError for a missing column,
\* a ValueError from reset_index when y is the grouping column itself,
\* else one row per distinct x in key order, holding the summed y
groupby_sum(d, x, y) ==
    IF ~HasColumn(d, x) THEN Raise("KeyError")
    ELSE IF ~HasColumn(d, y) THEN Raise("KeyError")
    ELSE IF x = y THEN Raise("ValueError: cannot insert, already exists")
    ELSE LET keys == SortedKeys(Distinct(d, x))
         IN Return([i \in 1..Len(keys) |->
                [name |-> keys[i], value |-> SumSeq(CellsOf(d.rows, x, keys[i], y))]])

\* insert e behind every element whose value is at least e's
RECURSIVE InsertDesc(_, _)
InsertDesc(s, e) ==
    IF s = <<>> THEN <<e>>
    ELSE IF Head(s).value >= e.value THEN <<Head(s)>> \o InsertDesc(Tail(s), e)
    ELSE <<e>> \o s

\* sort_values(by=y, ascending=False): descending by value, equal values in
\* the order they are handed over (the pie collapse hands them over in key
\* order, value_counts in the order its build meets them)
RECURSIVE sort_values(_)
sort_values(s) ==
    IF s = <<>> THEN <<>>
    ELSE InsertDesc(sort_values(SubSeq(s, 1, Len(s) - 1)), s[Len(s)])

\* sorted_data.head(n)
head(s, n) == SubSeq(s, 1, IF Len(s) < n THEN Len(s) ELSE n)

\* sorted_data.iloc[n:]
iloc_from(s, n) == SubSeq(s, n + 1, Len(s))

\* [y_column].sum() of grouped rows
ValueSum(s) == SumSeq([i \in 1..Len(s) |-> s[i].value])

(***************************************************************************)
(* plotly express.  A figure is its trace type, its per-row points or its  *)
(* pie slices, the trace options and the layout.                           *)
(***************************************************************************)
Cell(row, col) == IF col = None THEN None ELSE Some(row[col[1]])

PxLayout(geom, xa, ya) ==
    [title_x |-> None,
     xaxis_title |-> IF geom = "pie" THEN None ELSE xa,
     yaxis_title |-> IF geom = "pie" THEN None
                     ELSE IF geom = "histogram" THEN Some("count") ELSE ya,
     xaxis_tickangle |-> None,
     template |-> "plotly"]

\* px.bar, px.line, px.scatter, px.area, px.histogram, px.box, px.violin:
\* a ValueError when an x, y or color argument names no column of the frame
PxXY(geom, d, xa, ya, ca, title, height, markers, box) ==
    IF \E a \in {xa, ya, ca} : a # None /\ ~HasColumn(d, a[1])
    THEN Raise("ValueError: not the name of a column")
    ELSE Return(
        [geom |-> geom,
         points |-> [i \in 1..Len(d.rows) |->
                        [x |-> Cell(d.rows[i], xa), y |-> Cell(d.rows[i], ya),
                         color |-> Cell(d.rows[i], ca)]],
         slices |-> <<>>,
         title |-> title, height |-> height, hole |-> NoHole,
         markers |-> markers, box |-> box,
         layout |-> PxLayout(geom, xa, ya)])

\* px.pie(data, names=x_column, values=y_column, ...) over grouped rows
PxPie(slices, title, height, hole) ==
    [geom |-> "pie", points |-> <<>>, slices |-> slices,
     title |-> title, height |-> height, hole |-> hole,
     markers |-> FALSE, box |-> FALSE,
     layout |-> PxLayout("pie", None, None)]

(***************************************************************************)
(* generate_chart (utils/chart_generator.py).                              *)
(***************************************************************************)
\* available_chart_types(): the types the application offers
available_chart_types ==
    <<"bar", "line", "scatter", "pie", "area", "histogram", "box", "violin">>

\* the types generate_chart has a branch for
ChartTypes ==
    {"bar", "line", "scatter", "pie", "donut", "area", "histogram", "box", "violin"}

\* the pie and donut branches: aggregate duplicate x values, then px.pie
pie_branch(d, x_column, y_column, title, height, hole) ==
    LET pie_data == groupby_sum(d, x_column, y_column)
    IN IF pie_data.raised THEN pie_data
       ELSE Return(PxPie(pie_data.value, title, height, hole))

\* a chain that lost its donut branch falls through to the else
donut_unsupported(d, x_column, y_column, title, height) ==
    Raise("ValueError: Unsupported chart type")

\* elif chart_type == 'donut': "Similar to pie but with a hole"
donut_branch(d, x_column, y_column, title, height) ==
    pie_branch(d, x_column, y_column, title, height, DonutHole)

\* a histogram color-encoded by y whatever use_color says
histogram_color_always(y_column, use_color) == Some(y_column)

\* color=y_column if use_color else None
histogram_color(y_column, use_color) == IF use_color THEN Some(y_column) ELSE None

\* "Create figure with appropriate type": the if/elif chain on chart_type
create_figure(d, chart_type, x_column, y_column, title, use_color, height) ==
    LET x == Some(x_column)
        y == Some(y_column)
    IN CASE chart_type = "bar" ->
              PxXY("bar", d, x, y, IF use_color THEN x ELSE None, title, height, FALSE, FALSE)
         [] chart_type = "line" ->
              PxXY("line", d, x, y, None, title, height, TRUE, FALSE)
         [] chart_type = "scatter" ->
              PxXY("scatter", d, x, y, IF use_color THEN x ELSE None, title, height, FALSE, FALSE)
         [] chart_type = "pie" ->
              pie_branch(d, x_column, y_column, title, height, NoHole)
         [] chart_type = "donut" ->
              donut_branch(d, x_column, y_column, title, height)
         [] chart_type = "area" ->
              PxXY("area", d, x, y, None, title, height, FALSE, FALSE)
         [] chart_type = "histogram" ->
              PxXY("histogram", d, x, None, histogram_color(y_column, use_color), title,
                   height, FALSE, FALSE)
         [] chart_type = "box" ->
              PxXY("box", d, x, y, IF use_color THEN x ELSE None, title, height, FALSE, FALSE)
         [] chart_type = "violin" ->
              PxXY("violin", d, x, y, None, title, height, FALSE, TRUE)
         [] OTHER -> Raise("ValueError: Unsupported chart type")

\* "Configure layout": fig.update_layout(title_x, xaxis_title, yaxis_title, template)
update_layout(f, chart_type, x_column, y_column, show_grid) ==
    [f EXCEPT !.layout =
        [title_x |-> Some(TitleXCenter),
         xaxis_title |-> Some(x_column),
         yaxis_title |-> IF chart_type \notin {"pie", "donut"} THEN Some(y_column) ELSE None,
         xaxis_tickangle |-> f.layout.xaxis_tickangle,
         template |-> IF show_grid THEN "plotly" ELSE "plotly_white"]]

\* "Limit pie chart segments and add 'Other' category": the figure is rebuilt
\* by px.pie only when other_value > 0, and the rebuilt figure is returned as
\* px.pie made it
limit_segments(d, f, chart_type, x_column, y_column, title, height) ==
    LET pie_data == groupby_sum(d, x_column, y_column).value
        sorted_data == sort_values(pie_data)
        top_data == head(sorted_data, top_n)
        other_value == ValueSum(iloc_from(sorted_data, top_n))
    IN IF other_value > 0
       THEN LET other_row == [name |-> "Other", value |-> other_value]
                final_data == Append(top_data, other_row)
            IN PxPie(final_data, title, height,
                     IF chart_type = "donut" THEN DonutHole ELSE NoHole)
       ELSE f

\* the adjustment with the donut left out of the types it looks at
adjust_readability_no_donut(d, f, chart_type, x_column, y_column, title, height) ==
    IF chart_type \in {"bar", "pie"} /\ nunique(d, x_column) > CollapseThreshold
    THEN IF chart_type = "bar"
         THEN [f EXCEPT !.layout.xaxis_tickangle = Some(0 - 45)]
         ELSE limit_segments(d, f, chart_type, x_column, y_column, title, height)
    ELSE f

\* "Adjust for readability with many categories"
adjust_readability(d, f, chart_type, x_column, y_column, title, height) ==
    IF chart_type \in {"bar", "pie", "donut"}
    THEN LET unique_categories == nunique(d, x_column)
         IN IF unique_categories > CollapseThreshold
            THEN IF chart_type = "bar"
                 THEN [f EXCEPT !.layout.xaxis_tickangle = Some(0 - 45)]
                 ELSE limit_segments(d, f, chart_type, x_column, y_column, title, height)
            ELSE f
    ELSE f

generate_chart(d, chart_type, x_column, y_column, title, use_color, height, show_grid) ==
    LET t == IF title = None THEN Some(<<y_column, " by ", x_column>>) ELSE title
        created == create_figure(d, chart_type, x_column, y_column, t, use_color, height)
    IN IF created.raised THEN created
       ELSE Return(adjust_readability(d,
                update_layout(created.value, chart_type, x_column, y_column, show_grid),
                chart_type, x_column, y_column, t, height))

(***************************************************************************)
(* The chart builder on its own: a frame, and the last request made of it  *)
(* with what generate_chart answered.                                      *)
(***************************************************************************)
NoRequest == [made |-> FALSE]

Request(type, x, y, title, use_color, height, show_grid) ==
    [made |-> TRUE, type |-> type, x |-> x, y |-> y, title |-> title,
     use_color |-> use_color, height |-> height, show_grid |-> show_grid]

\* "heatmap" stands for every chart type generate_chart has no branch for
RequestedTypes == ChartTypes \cup {"heatmap"}
\* "ghost" names no column; "" is the y of a one-column recommendation
RequestedX == {"name", "ghost"}
RequestedY == {"sales", "name", "ghost", ""}
RequestedTitles == {None, Some(<<"Chart">>)}

Build(d, r) ==
    generate_chart(d, r.type, r.x, r.y, r.title, r.use_color, r.height, r.show_grid)

\* the application's state where a specification leaves it alone
AppIdle ==
    /\ user = None /\ data = PyNone /\ analysis = PyNone /\ charts = <<>>
    /\ current_session_id = None /\ user_sessions = <<>>
    /\ db = [users |-> <<>>, sessions |-> <<>>, recency |-> <<>>]
    /\ message = <<>> /\ widgets = None

LoadIdle == uploaded_file = None /\ loaded = None

InitChart ==
    /\ df \in Datasets
    /\ fig = [req |-> NoRequest]
    /\ AppIdle /\ LoadIdle

\* one call of generate_chart
GenerateChart ==
    /\ ~fig.req.made
    /\ \E type \in RequestedTypes, x \in RequestedX, y \in RequestedY,
          title \in RequestedTitles, use_color \in BOOLEAN, show_grid \in BOOLEAN :
          LET r == Request(type, x, y, title, use_color, 400, show_grid)
          IN fig' = [req |-> r, res |-> Build(df, r)]
    /\ UNCHANGED <<df, appVars, loadVars>>

\* the caller drops the figure
DropFigure ==
    /\ fig.req.made
    /\ fig' = [req |-> NoRequest]
    /\ UNCHANGED <<df, appVars, loadVars>>

NextChart == GenerateChart \/ DropFigure

SpecChart == InitChart /\ [][NextChart]_vars

IsIn(seq, e) == \E i \in 1..Len(seq) : seq[i] = e

(***************************************************************************)
(* json.dumps and json.loads between Python values and JSON text.          *)
(***************************************************************************)
\* whether json.dumps has an encoding for a value: a numpy.bool_ is not a
\* bool and has none
RECURSIVE json_serializable(_)
json_serializable(p) ==
    CASE p.t \in {"str", "int", "bool", "NoneType", "float"} -> TRUE
      [] p.t = "list" -> \A i \in 1..Len(p.v) : json_serializable(p.v[i])
      [] p.t = "dict" -> \A k \in DOMAIN p.v : json_serializable(p.v[k])
      [] OTHER -> FALSE

RECURSIVE json_dumps(_)
json_dumps(p) ==
    CASE p.t = "str" -> JString(p.v)
      [] p.t = "int" -> JNumber(p.v)
      [] p.t = "float" -> IF p = NaN THEN JNaN ELSE JReal(p.v)
      [] p.t = "bool" -> JBool(p.v)
      [] p.t = "NoneType" -> JNull
      [] p.t = "list" -> JArray([i \in 1..Len(p.v) |-> json_dumps(p.v[i])])
      [] p.t = "dict" -> JObject(p.keys, [k \in DOMAIN p.v |-> json_dumps(p.v[k])])

RECURSIVE json_loads(_)
json_loads(j) ==
    CASE j.j = "string" -> PyStr(j.v)
      [] j.j = "number" -> PyInt(j.v)
      [] j.j = "real" -> PyFloat(j.v)
      [] j.j = "NaN" -> NaN
      [] j.j = "bool" -> PyBool(j.v)
      [] j.j = "null" -> PyNone
      [] j.j = "array" -> PyList([i \in 1..Len(j.items) |-> json_loads(j.items[i])])
      [] j.j = "object" -> PyDict(j.keys, [k \in DOMAIN j.members |-> json_loads(j.members[k])])

(***************************************************************************)
(* load_file (utils/file_handler.py).  An uploaded file is its name, its   *)
(* content and how many of its lines the stream has handed out; a read     *)
(* moves the stream on and nothing in load_file rewinds it.  The content   *)
(* of a CSV file is its header and its lines of fields, whether its bytes  *)
(* are valid UTF-8 (every byte sequence is valid Latin-1) and the line at  *)
(* which the buffered read that meets an undecodable byte ends; the        *)
(* content of a JSON file is whether it parses and, if so, its root value. *)
(***************************************************************************)
\* str.lower() on the characters file names are written in
lower(c) ==
    CASE c = "C" -> "c" [] c = "S" -> "s" [] c = "V" -> "v" [] c = "J" -> "j"
      [] c = "O" -> "o" [] c = "N" -> "n" [] c = "T" -> "t" [] c = "X" -> "x"
      [] c = "D" -> "d" [] OTHER -> c

\* name.split('.')[-1]: what follows the last dot, the whole name if it has none
RECURSIVE last_part(_)
last_part(name) ==
    IF \A i \in 1..Len(name) : name[i] # "." THEN name
    ELSE last_part(Tail(name))

\* the extension taken as it is written, without .lower()
file_type_as_written(name) == last_part(name)

\* file_type = uploaded_file.name.split('.')[-1].lower()
file_type(name) == [i \in 1..Len(last_part(name)) |-> lower(last_part(name)[i])]

csv == <<"c", "s", "v">>
json == <<"j", "s", "o", "n">>

\* the lines of a file: the header and the rows of a CSV file, the one
\* document of a JSON file
Lines(f) == IF f.content.kind = "csv" THEN Len(f.content.lines) + 1 ELSE 1

\* nothing is left to read
at_end(f) == f.pos >= Lines(f)

\* the stream after a read that went through the file
Consumed(f) == [f EXCEPT !.pos = Lines(f)]

\* the stream after the read that met an undecodable byte: the reader had
\* pulled a buffer-full from it before it decoded anything
Buffered(f) == [f EXCEPT !.pos = IF @ < f.content.chunk_end THEN f.content.chunk_end ELSE @]

\* a field read as a column label, for the fields the files of the model hold
label(cell) ==
    IF cell.t = "str" THEN cell.v
    ELSE CASE cell.v = 5 -> "5" [] cell.v = 10 -> "10" [] cell.v = 20 -> "20"

\* the parser on a header and the lines below it: fields beyond the header in
\* the first line make the leading fields of every line the index; a line with
\* more fields than that is an error, one with fewer is filled with NaN
parse_lines(header, lines) ==
    LET expected == IF lines # <<>> /\ Len(lines[1]) > Len(header)
                    THEN Len(lines[1]) ELSE Len(header)
        shift == expected - Len(header)
        at(c) == CHOOSE i \in 1..Len(header) : header[i] = c
    IN IF \E i \in 1..Len(lines) : Len(lines[i]) > expected THEN Raise("ParserError")
       ELSE Return(DataFrame(header,
                [i \in 1..Len(lines) |->
                    [c \in {header[k] : k \in 1..Len(header)} |->
                        IF at(c) + shift <= Len(lines[i]) THEN lines[i][at(c) + shift]
                        ELSE NaN]]))

\* pd.read_csv(uploaded_file, encoding=...): reads from where the stream
\* stands, the first line it finds there being the header
read_csv(f, encoding) ==
    IF at_end(f) THEN Raise("EmptyDataError")
    ELSE IF encoding = "utf-8" /\ ~f.content.utf8 THEN Raise("UnicodeDecodeError")
    ELSE IF f.pos = 0 THEN parse_lines(f.content.header, f.content.lines)
    ELSE parse_lines([i \in 1..Len(f.content.lines[f.pos]) |-> label(f.content.lines[f.pos][i])],
                     SubSeq(f.content.lines, f.pos + 1, Len(f.content.lines)))

\* return pd.read_csv(uploaded_file, encoding='latin1') of the except branch:
\* the stream is where the UTF-8 attempt left it
retry_latin1(f, encoding) == read_csv(Buffered(f), encoding)

\* the csv branch: UTF-8 first, Latin-1 on the same stream after a decoding error
load_csv(f) ==
    LET first == read_csv(f, "utf-8")
    IN IF ~first.raised THEN first
       ELSE IF first.error = "UnicodeDecodeError"
       THEN LET second == retry_latin1(f, "latin1")
            IN IF ~second.raised THEN second
               ELSE Raise("Failed to parse CSV file")
       ELSE Raise("Error loading CSV file")

\* json.load(uploaded_file)
json_load(f) ==
    IF at_end(f) \/ ~f.content.utf8 \/ ~f.content.parses THEN Raise("JSONDecodeError")
    ELSE Return(f.content.root)

\* a key under its parent's key, f"{key_string}{separator}{key}", for the keys
\* the documents of the model nest
dotted(key_string, key) == CASE key_string = "p" /\ key = "q" -> "p.q"

\* _normalise_json: the leaves below a value in document order, each under
\* its dotted key
RECURSIVE normalise_json(_, _)
RECURSIVE normalise_members(_, _, _)
normalise_json(value, key_string) ==
    IF value.j = "object" THEN normalise_members(value, value.keys, key_string)
    ELSE << [key |-> key_string, cell |-> json_loads(value)] >>

normalise_members(object, keys, key_string) ==
    IF keys = <<>> THEN <<>>
    ELSE normalise_json(object.members[Head(keys)],
                        IF key_string = "" THEN Head(keys) ELSE dotted(key_string, Head(keys)))
            \o normalise_members(object, Tail(keys), key_string)

\* _normalise_json_ordered: the members that are no objects first, then the
\* leaves of those that are
normalise_json_ordered(object) ==
    LET flat == SelectSeq(object.keys, LAMBDA k : object.members[k].j # "object")
        nested == SelectSeq(object.keys, LAMBDA k : object.members[k].j = "object")
    IN normalise_members(object, flat, "") \o normalise_members(object, nested, "")

\* _simple_json_normalize of one element: an object flattened, {} for
\* anything that is no object
simple_json_normalize(ds) ==
    IF ds.j = "object" THEN normalise_json_ordered(ds) ELSE <<>>

\* the keys of records, each where it is first seen
RECURSIVE first_seen(_, _)
first_seen(records, seen) ==
    IF records = <<>> THEN seen
    ELSE LET keys == [i \in 1..Len(Head(records)) |-> Head(records)[i].key]
         IN first_seen(Tail(records), seen \o SelectSeq(keys, LAMBDA k : ~IsIn(seen, k)))

\* the cell a record holds under a key, None if it has no such key
cell_at(record, key) ==
    IF \E i \in 1..Len(record) : record[i].key = key
    THEN Some(record[CHOOSE i \in 1..Len(record) : record[i].key = key].cell)
    ELSE None

\* a frame of records that leaves a key a record lacks out of its row
from_records_unfilled(records) ==
    DataFrame(first_seen(records, <<>>),
              [i \in 1..Len(records) |->
                  [c \in {records[i][k].key : k \in 1..Len(records[i])} |->
                      cell_at(records[i], c)[1]]])

\* pd.DataFrame(list of dicts): one row per dict, the columns in first-seen
\* order, NaN where a dict lacks the key
from_records(records) ==
    LET columns == first_seen(records, <<>>)
    IN DataFrame(columns,
                 [i \in 1..Len(records) |->
                     [c \in {columns[k] : k \in 1..Len(columns)} |->
                         IF cell_at(records[i], c) = None THEN NaN
                         ELSE cell_at(records[i], c)[1]]])

\* pd.json_normalize(data) of a list: DataFrame() for the empty list, else
\* the frame of the flattened elements
json_normalize(items) ==
    IF items = <<>> THEN DataFrame(<<>>, <<>>)
    ELSE from_records([i \in 1..Len(items) |-> simple_json_normalize(items[i])])

\* pd.DataFrame([json_data]): the object as one row, its members as they are
single_record(object) ==
    from_records(<< [i \in 1..Len(object.keys) |->
                       [key |-> object.keys[i],
                        cell |-> json_loads(object.members[object.keys[i]])]] >>)

\* isinstance(json_data, list) of the dispatch
is_list(value) == value.j = "array"

\* the json branch; every exception under the try is wrapped
load_json(f) ==
    LET json_data == json_load(f)
        answer ==
            IF json_data.raised THEN json_data
            ELSE IF is_list(json_data.value)
            THEN Return(json_normalize(json_data.value.items))
            ELSE IF json_data.value.j = "object"
            THEN IF "data" \in DOMAIN json_data.value.members
                    /\ is_list(json_data.value.members["data"])
                 THEN Return(json_normalize(json_data.value.members["data"].items))
                 ELSE Return(single_record(json_data.value))
            ELSE Raise("Unsupported JSON structure")
    IN IF answer.raised THEN Raise("Error loading JSON file") ELSE answer

load_file(f) ==
    IF file_type(f.name) = csv THEN load_csv(f)
    ELSE IF file_type(f.name) = json THEN load_json(f)
    ELSE Raise("Unsupported file type")

\* load_file reads the stream it is given, unless it did not know the type
after_load_file(f) ==
    IF file_type(f.name) = csv \/ file_type(f.name) = json THEN Consumed(f) ELSE f

(***************************************************************************)
(* The loader on its own: a file in the uploader, and load_file called on  *)
(* it at every run of the script.                                          *)
(***************************************************************************)
FileNames ==
    { <<"d", ".", "c", "s", "v">>, <<"d", ".", "C", "S", "V">>, <<"d", ".", "C", "s", "v">>,
      <<"d", ".", "j", "s", "o", "n">>, <<"d", ".", "J", "S", "O", "N">>,
      <<"d", ".", "j", "s", "o", "n", ".", "c", "s", "v">>,
      <<"d", ".", "c", "s", "v", ".", "j", "s", "o", "n">>,
      <<"d", ".", "t", "x", "t">>, <<"d", ".", "c", "s", "v", ".", "t", "x", "t">>,
      <<"d", ".", "x", "l", "s", "x">>, <<"d", "c", "s", "v">>, <<"d", ".">>,
      <<"c", "s", "v">>, <<"j", "s", "o", "n">> }

\* A,10 / B,20 / A,5
ExampleLines ==
    << <<PyStr("A"), PyInt(10)>>, <<PyStr("B"), PyInt(20)>>, <<PyStr("A"), PyInt(5)>> >>

\* the lines below the header name,sales: the example, the example with a
\* line that lacks its last field, with a line that has a field too many, and
\* none
CsvLines ==
    { ExampleLines,
      << <<PyStr("A"), PyInt(10)>>, <<PyStr("B")>>, <<PyStr("A"), PyInt(5)>> >>,
      << <<PyStr("A"), PyInt(10)>>, <<PyStr("B"), PyInt(20), PyInt(5)>>,
         <<PyStr("A"), PyInt(5)>> >>,
      <<>> }

CsvContents ==
    {c \in [kind : {"csv"}, utf8 : BOOLEAN, header : {Columns}, lines : CsvLines,
            chunk_end : 1..(Len(ExampleLines) + 1)] :
        /\ c.chunk_end <= Len(c.lines) + 1
        /\ c.utf8 => c.chunk_end = Len(c.lines) + 1}

ExampleRecord(x, y) == JObject(<<"x", "y">>, [x |-> JNumber(x), y |-> JNumber(y)])
ExampleArray == JArray(<<ExampleRecord(1, 2), ExampleRecord(2, 4)>>)

\* [{"x": 1}, {"y": 2, "x": 3}]: records with different key sets
MixedKeysArray ==
    JArray(<< JObject(<<"x">>, [x |-> JNumber(1)]),
              JObject(<<"y", "x">>, [y |-> JNumber(2), x |-> JNumber(3)]) >>)

\* [{"p": {"q": 1}, "x": 2}]: a record that nests an object before a number
NestedArray ==
    JArray(<< JObject(<<"p", "x">>,
                      [p |-> JObject(<<"q">>, [q |-> JNumber(1)]), x |-> JNumber(2)]) >>)

JsonRoots ==
    { ExampleArray,
      MixedKeysArray,
      NestedArray,
      JArray(<<>>),
      JObject(<<"data">>, [data |-> ExampleArray]),
      JObject(<<"data">>, [data |-> JNumber(3)]),
      JObject(<<"data">>, [data |-> JArray(<<JNumber(1), JNumber(2)>>)]),
      ExampleRecord(1, 2),
      JNumber(3),
      JString("a"),
      JNull,
      JArray(<<JNumber(1), JNumber(2)>>),
      JArray(<<ExampleRecord(1, 2), JNumber(2)>>) }

JsonContents == [kind : {"json"}, utf8 : BOOLEAN, parses : BOOLEAN, root : JsonRoots]

\* the files of the model: a .csv name holds CSV text and a .json name JSON text
Files ==
    {f \in [name : FileNames, content : CsvContents \cup JsonContents, pos : {0}] :
        /\ file_type(f.name) = csv => f.content.kind = "csv"
        /\ file_type(f.name) = json => f.content.kind = "json"}

InitLoad ==
    /\ uploaded_file \in {Some(f) : f \in Files}
    /\ loaded = None
    /\ df = Frame(<<>>) /\ fig = [req |-> NoRequest]
    /\ AppIdle

\* one run of "if uploaded_file is not None: ... load_file(uploaded_file)":
\* the file as the run found it, and what load_file answered
LoadFile ==
    /\ uploaded_file # None
    /\ loaded' = Some([file |-> uploaded_file[1], res |-> load_file(uploaded_file[1])])
    /\ uploaded_file' = Some(after_load_file(uploaded_file[1]))
    /\ UNCHANGED <<chartVars, appVars>>

NextLoad == LoadFile

SpecLoad == InitLoad /\ [][NextLoad]_vars

(***************************************************************************)
(* Dictionaries of the application.                                         *)
(***************************************************************************)
\* dict.get(key, default) on a dict of text, number and truth values
Get(dict, key, default) == IF key \in DOMAIN dict.v THEN dict.v[key].v ELSE default

(***************************************************************************)
(* analyze_data (utils/data_analyzer.py).  Quantiles are kept in quarters, *)
(* the outlier bounds in eighths, coefficients rounded to 2 decimals in    *)
(* hundredths; all of these are exact for the integer cells of the model.  *)
(***************************************************************************)
\* df[col]: the cells of a column, in row order
column(d, col) == [i \in 1..Len(d.rows) |-> d.rows[i][col]]

\* Series.dropna()
dropna(series) == SelectSeq(series, LAMBDA cell : ~isnull(cell))

\* the numbers of a numeric series, nulls left out
values(series) == [i \in 1..Len(dropna(series)) |-> dropna(series)[i].v]

\* whether pandas holds the column as int64 or float64: the column has cells
\* and each is a number or NaN (a column without cells is read as object)
is_number(d, col) ==
    /\ Len(d.rows) > 0
    /\ \A i \in 1..Len(d.rows) : d.rows[i][col].t \in {"int", "float"}

\* str(dtype)
dtype(d, col) ==
    IF ~is_number(d, col) THEN "object"
    ELSE IF \A i \in 1..Len(d.rows) : d.rows[i][col].t = "int" THEN "int64"
    ELSE "float64"

\* {col: str(dtype) for col, dtype in df.dtypes.items()}
column_types(d) ==
    PyDict(d.columns, [col \in {d.columns[i] : i \in 1..Len(d.columns)} |-> PyStr(dtype(d, col))])

\* df.select_dtypes(include=['number']).columns.tolist()
select_dtypes(d) == SelectSeq(d.columns, LAMBDA col : is_number(d, col))

\* [col for col in df.columns if col not in numeric_cols]
cat_cols(d) == SelectSeq(d.columns, LAMBDA col : ~IsIn(select_dtypes(d), col))

\* Series.quantile(q4 / 4) in quarters, linear interpolation between the two
\* nearest order statistics; None stands for the NaN of an all-null series
quantile(series, q4) ==
    LET sorted == SortSeq(values(series), LAMBDA a, b : a < b)
        h == (Len(sorted) - 1) * q4
        lo == (h \div 4) + 1
    IN IF sorted = <<>> THEN None
       ELSE IF h % 4 = 0 THEN Some(4 * sorted[lo])
       ELSE Some(4 * sorted[lo] + (h % 4) * (sorted[lo + 1] - sorted[lo]))

\* twice the multiplier of "1.5 * iqr"
IqrFactor2 == 3

\* lower_bound and upper_bound in eighths; None when the quartiles are NaN
bounds(series) ==
    LET q1 == quantile(series, 1)
        q3 == quantile(series, 3)
        iqr == q3[1] - q1[1]
    IN IF q1 = None THEN None
       ELSE Some([lower |-> 2 * q1[1] - IqrFactor2 * iqr, upper |-> 2 * q3[1] + IqrFactor2 * iqr])

\* the rows a bound keeps when "<" and ">" are read as "<=" and ">="
outside_or_on(series, b) ==
    {i \in 1..Len(series) :
        ~isnull(series[i]) /\ (8 * series[i].v <= b.lower \/ 8 * series[i].v >= b.upper)}

\* the rows of (df[col] < lower_bound) | (df[col] > upper_bound): a
\* comparison with NaN is false
outside(series, b) ==
    {i \in 1..Len(series) :
        ~isnull(series[i]) /\ (8 * series[i].v < b.lower \/ 8 * series[i].v > b.upper)}

\* len(df[(df[col] < lower_bound) | (df[col] > upper_bound)])
outlier_count(series) ==
    IF bounds(series) = None THEN 0 ELSE Cardinality(outside(series, bounds(series)[1]))

\* the outliers dict: the numeric columns with outlier_count > 0, in order
outliers(d) ==
    LET cols == SelectSeq(select_dtypes(d), LAMBDA col : outlier_count(column(d, col)) > 0)
    IN PyDict(cols, [col \in {cols[i] : i \in 1..Len(cols)} |->
                        PyInt(outlier_count(column(d, col)))])

\* the entries of results a step adds: none, or one key with its value
NoEntry == <<>>
Entry(key, value) == <<[key |-> key, value |-> value]>>

\* if outliers: results['potential_outliers'] = outliers
potential_outliers(d) ==
    IF outliers(d).keys # <<>> THEN Entry("potential_outliers", outliers(d)) ELSE NoEntry

\* the distinct non-null values of a series in the order they first occur
RECURSIVE unique(_, _)
unique(series, seen) ==
    IF series = <<>> THEN seen
    ELSE IF isnull(Head(series)) \/ IsIn(seen, Head(series).v) THEN unique(Tail(series), seen)
    ELSE unique(Tail(series), Append(seen, Head(series).v))

\* how often a value occurs in a series
occurrences(series, value) ==
    Cardinality({i \in 1..Len(series) : ~isnull(series[i]) /\ series[i].v = value})

\* the order in which the sort of value_counts meets the values: first
\* occurrence order in a build whose sort is stable; the default sort kind is
\* not stable, and other builds leave equal counts in another order
met(s, build) ==
    LET n == Len(s)
        rotated == [i \in 1..n |-> s[((i - 1 + build.rot) % n) + 1]]
    IN IF build.rev THEN [i \in 1..n |-> rotated[n + 1 - i]] ELSE rotated

\* Series.value_counts(): the count of every distinct non-null value, in
\* descending order of count
value_counts(series, build) ==
    LET found == met(unique(series, <<>>), build)
    IN sort_values([i \in 1..Len(found) |->
                      [name |-> found[i], value |-> occurrences(series, found[i])]])

\* the rows of head(10)
TopValues == 10

\* value_counts.to_dict()
to_dict(counts) ==
    PyDict([i \in 1..Len(counts) |-> counts[i].name],
           [name \in {counts[i].name : i \in 1..Len(counts)} |->
               PyInt(counts[CHOOSE i \in 1..Len(counts) : counts[i].name = name].value)])

\* cat_summaries[col] = {...} with the null cells counted as a value
cat_summary_with_nulls(d, col, build) ==
    PyDict(<<"unique_values", "top_values">>,
           [unique_values |->
                PyInt(nunique(d, col) + (IF dropna(column(d, col)) # column(d, col) THEN 1 ELSE 0)),
            top_values |-> to_dict(head(value_counts(column(d, col), build), TopValues))])

\* cat_summaries[col] = {'unique_values': df[col].nunique(),
\*                       'top_values': value_counts.to_dict()}
cat_summary(d, col, build) ==
    PyDict(<<"unique_values", "top_values">>,
           [unique_values |-> PyInt(nunique(d, col)),
            top_values |-> to_dict(head(value_counts(column(d, col), build), TopValues))])

\* if cat_cols: results['categorical_summary'] = cat_summaries
categorical_summary(d, build) ==
    IF cat_cols(d) = <<>> THEN NoEntry
    ELSE Entry("categorical_summary",
               PyDict(cat_cols(d), [col \in {cat_cols(d)[i] : i \in 1..Len(cat_cols(d))} |->
                                       cat_summary(d, col, build)]))

\* df.isnull().sum() of one column
missing_vals(d, col) == Len(column(d, col)) - Len(dropna(column(d, col)))

\* {col: count for col, count in missing_vals.items()}: the zero counts kept
missing_cols_unfiltered(d) ==
    PyDict(d.columns, [col \in {d.columns[i] : i \in 1..Len(d.columns)} |->
                          PyInt(missing_vals(d, col))])

\* {col: count for col, count in missing_vals.items() if count > 0}
missing_cols(d) ==
    LET cols == SelectSeq(d.columns, LAMBDA col : missing_vals(d, col) > 0)
    IN PyDict(cols, [col \in {cols[i] : i \in 1..Len(cols)} |-> PyInt(missing_vals(d, col))])

\* if missing_vals.sum() > 0: results['missing_values'] = missing_cols
missing_values(d) ==
    IF \E i \in 1..Len(d.columns) : missing_vals(d, d.columns[i]) > 0
    THEN Entry("missing_values", missing_cols(d))
    ELSE NoEntry

\* DataFrame.describe() of the numeric columns: per column the count, the
\* sum and the sum of squares that mean and std are made of, and min, the
\* three quartiles (in quarters) and max; None where pandas has NaN
describe(d, cols) ==
    DataFrame(cols,
        [col \in {cols[i] : i \in 1..Len(cols)} |->
            LET xs == values(column(d, col))
                sorted == SortSeq(xs, LAMBDA a, b : a < b)
            IN [count |-> Len(xs),
                sum |-> SumSeq(xs),
                sum_of_squares |-> SumSeq([i \in 1..Len(xs) |-> xs[i] * xs[i]]),
                min |-> IF xs = <<>> THEN None ELSE Some(sorted[1]),
                q25 |-> quantile(column(d, col), 1),
                q50 |-> quantile(column(d, col), 2),
                q75 |-> quantile(column(d, col), 3),
                max |-> IF xs = <<>> THEN None ELSE Some(sorted[Len(xs)])]])

\* the rows in which both columns hold a number
paired(d, a, b) == {i \in 1..Len(d.rows) : ~isnull(d.rows[i][a]) /\ ~isnull(d.rows[i][b])}

RECURSIVE SumOf(_, _, _)
\* the sum of d.rows[i][a] * d.rows[i][b] over the rows of a set
SumOf(d, rowset, ab) ==
    IF rowset = {} THEN 0
    ELSE LET i == CHOOSE r \in rowset : TRUE
             term == (IF ab[1] = "" THEN 1 ELSE d.rows[i][ab[1]].v)
                       * (IF ab[2] = "" THEN 1 ELSE d.rows[i][ab[2]].v)
         IN term + SumOf(d, rowset \ {i}, ab)

\* n times the sum of the products of the deviations of a and b over the
\* paired rows
codeviation(d, a, b) ==
    LET rowset == paired(d, a, b)
    IN Cardinality(rowset) * SumOf(d, rowset, <<a, b>>)
         - SumOf(d, rowset, <<a, "">>) * SumOf(d, rowset, <<b, "">>)

\* n times the sum of the squared deviations of a over the rows paired with b
deviation(d, a, b) ==
    LET rowset == paired(d, a, b)
    IN Cardinality(rowset) * SumOf(d, rowset, <<a, a>>)
         - SumOf(d, rowset, <<a, "">>) * SumOf(d, rowset, <<a, "">>)

\* the Pearson coefficient of two columns over their paired rows, rounded to
\* 2 decimals, in hundredths; NaN when a column does not vary over them
pearson(d, a, b) ==
    LET c == codeviation(d, a, b)
        p == deviation(d, a, b) * deviation(d, b, a)
        q == 40000 * c * c
        k == CHOOSE n \in 0..100 :
                 /\ (n = 0 \/ (2 * n - 1) * (2 * n - 1) * p <= q)
                 /\ (n = 100 \/ q < (2 * n + 1) * (2 * n + 1) * p)
    IN IF p = 0 THEN NaN ELSE PyFloat(IF c < 0 THEN 0 - k ELSE k)

\* df[numeric_cols].corr().round(2): one row per column, one cell per column
corr(d, cols) ==
    DataFrame(cols,
        [a \in {cols[i] : i \in 1..Len(cols)} |->
            [b \in {cols[i] : i \in 1..Len(cols)} |-> pearson(d, a, b)]])

\* the correlation entry made for a single numeric column too
correlation_of_one(d) ==
    IF Len(select_dtypes(d)) > 0 THEN Entry("correlation", corr(d, select_dtypes(d)))
    ELSE NoEntry

\* if len(numeric_cols) > 1: results['correlation'] = ...
correlation(d) ==
    IF Len(select_dtypes(d)) > 1 THEN Entry("correlation", corr(d, select_dtypes(d)))
    ELSE NoEntry

\* what skew() and kurtosis() return: Python's float nan, a numpy float64
\* (in units of 0.00001), or the zero of a series that does not vary
PyNan == [kind |-> "nan"]
Float64(e5) == [kind |-> "float64", e5 |-> e5]
Zero(kind) == [kind |-> kind, e5 |-> 0]

\* the bias-corrected sample skewness and excess kurtosis of the series of
\* the model (sorted), rounded to 5 decimals; the kurtosis of 3 numbers is
\* never asked for
Moments(sorted) ==
    CASE sorted = <<1, 2, 3>> -> [skew |-> 0, kurt |-> 0]
      [] sorted = <<1, 2, 4>> -> [skew |-> 93522, kurt |-> 0]
      [] sorted = <<5, 10, 20>> -> [skew |-> 93522, kurt |-> 0]
      [] sorted = <<0, 3, 5, 8>> -> [skew |-> 0, kurt |-> 0 - 16090]
      [] sorted = <<0, 5, 10, 18>> -> [skew |-> 49588, kurt |-> 0 - 25729]
      [] sorted = <<1, 1, 1, 9>> -> [skew |-> 200000, kurt |-> 400000]
      [] sorted = <<1, 1, 1, 1, 2>> -> [skew |-> 223607, kurt |-> 500000]
      [] sorted = <<0, 4, 4, 5, 6, 7, 8, 9, 10, 11, 12>> ->
             [skew |-> 0 - 39572, kurt |-> 0 - 18322]

\* whether the numbers of a series are all the same (m2 == 0)
constant(xs) == \A i \in 1..Len(xs) : xs[i] = xs[1]

\* Series.skew(): nan below 3 numbers, zero for a series that does not vary
\* (an int or a float64, as the pandas of the build has it)
skew(series, build) ==
    LET xs == values(series)
    IN IF Len(xs) < 3 THEN PyNan
       ELSE IF constant(xs) THEN Zero(build.zero)
       ELSE Float64(Moments(SortSeq(xs, LAMBDA a, b : a < b)).skew)

\* Series.kurtosis(): nan below 4 numbers
kurtosis(series, build) ==
    LET xs == values(series)
    IN IF Len(xs) < 4 THEN PyNan
       ELSE IF constant(xs) THEN Zero(build.zero)
       ELSE Float64(Moments(SortSeq(xs, LAMBDA a, b : a < b)).kurt)

\* round(x, 2), in hundredths
round2(x) ==
    IF x.kind = "nan" THEN NaN
    ELSE IF x.kind = "int" THEN PyInt(0)
    ELSE IF x.e5 < 0 THEN PyFloat(0 - ((500 - x.e5) \div 1000))
    ELSE PyFloat((x.e5 + 500) \div 1000)

\* the 0.5 of "abs(x) < 0.5", in units of 0.00001
NormalLimit == 50000

\* abs(x) < 0.5: a comparison with nan is False, one with a float64 is a
\* numpy.bool_
below_limit(x) ==
    IF x.kind = "nan" THEN PyBool(FALSE)
    ELSE IF x.kind = "int" THEN PyBool(TRUE)
    ELSE NpBool(x.e5 < NormalLimit /\ 0 - x.e5 < NormalLimit)

\* Python's "a and b": a when a is false, else b
and(a, b) == IF a.v THEN b ELSE a

\* distribution[col] with is_normal taken from the skewness alone
distribution_of_skewness(series, build) ==
    PyDict(<<"skewness", "kurtosis", "is_normal">>,
           [skewness |-> round2(skew(series, build)),
            kurtosis |-> round2(kurtosis(series, build)),
            is_normal |-> below_limit(skew(series, build))])

\* distribution[col] = {'skewness': round(skewness, 2), 'kurtosis': ...,
\*                      'is_normal': abs(skewness) < 0.5 and abs(kurtosis) < 0.5}
distribution_of(series, build) ==
    PyDict(<<"skewness", "kurtosis", "is_normal">>,
           [skewness |-> round2(skew(series, build)),
            kurtosis |-> round2(kurtosis(series, build)),
            is_normal |-> and(below_limit(skew(series, build)),
                              below_limit(kurtosis(series, build)))])

\* results['distribution'] made without the "if numeric_cols:" test
distribution_always(d, build) ==
    Entry("distribution",
          PyDict(select_dtypes(d),
                 [col \in {select_dtypes(d)[i] : i \in 1..Len(select_dtypes(d))} |->
                     distribution_of(column(d, col), build)]))

\* if numeric_cols: results['distribution'] = distribution
distribution(d, build) ==
    IF select_dtypes(d) = <<>> THEN NoEntry
    ELSE Entry("distribution",
               PyDict(select_dtypes(d),
                      [col \in {select_dtypes(d)[i] : i \in 1..Len(select_dtypes(d))} |->
                          distribution_of(column(d, col), build)]))

\* if numeric_cols: results['numeric_summary'] = df[numeric_cols].describe()
numeric_summary(d) ==
    IF select_dtypes(d) = <<>> THEN NoEntry
    ELSE Entry("numeric_summary", describe(d, select_dtypes(d)))

\* whether a cell is hashable: a dict or a list is not
hashable(cell) == cell.t \notin {"dict", "list"}

\* the results dict of the entries in the order they were added
results_of(entries) ==
    PyDict([i \in 1..Len(entries) |-> entries[i].key],
           [key \in {entries[i].key : i \in 1..Len(entries)} |->
               entries[CHOOSE i \in 1..Len(entries) : entries[i].key = key].value])

\* analyze_data(df): value_counts raises on a column of dicts or lists
analyze_data(d, build) ==
    IF \E i \in 1..Len(cat_cols(d)), r \in 1..Len(d.rows) : ~hashable(d.rows[r][cat_cols(d)[i]])
    THEN Raise("TypeError: unhashable type")
    ELSE Return(results_of(
            Entry("row_count", PyInt(Len(d.rows)))
            \o Entry("column_count", PyInt(Len(d.columns)))
            \o Entry("column_types", column_types(d))
            \o numeric_summary(d)
            \o correlation(d)
            \o (IF select_dtypes(d) = <<>> THEN NoEntry ELSE potential_outliers(d))
            \o categorical_summary(d, build)
            \o missing_values(d)
            \o distribution(d, build)))

(***************************************************************************)
(* The analyzer on its own: df is the frame and analysis what analyze_data *)
(* answered for it.  A build is what the installed pandas and numpy leave  *)
(* open: the order in which a sort meets equal counts, and the type of the *)
(* zero that skew() and kurtosis() return for a series that does not vary. *)
(***************************************************************************)
Builds == [rot : 0..2, rev : BOOLEAN, zero : {"int", "float64"}]

\* the build whose sort is stable
StableBuild == [rot |-> 0, rev |-> FALSE, zero |-> "float64"]

Numbers(xs) == [i \in 1..Len(xs) |-> IF xs[i] = None THEN NaN ELSE PyInt(xs[i][1])]
Texts(xs) == [i \in 1..Len(xs) |-> IF xs[i] = None THEN PyNone ELSE PyStr(xs[i][1])]

\* numeric columns whose sums of squares stay small
SmallSeries ==
    {Numbers(xs) : xs \in {<< <<1>>, <<2>> >>, << <<2>>, <<4>> >>, << <<1>>, None >>,
                           << None, None >>,
                           << <<1>>, <<2>>, <<3>> >>, << <<3>>, <<1>>, <<2>> >>,
                           << <<3>>, <<3>>, <<3>> >>, << <<1>>, None, <<3>> >>,
                           << <<1>>, <<2>>, <<4>> >>}}

NumericSeries ==
    SmallSeries \cup
    {Numbers(xs) : xs \in {<< <<10>>, <<20>>, <<5>> >>,
                           << <<0>>, <<5>>, <<10>>, <<18>> >>, << <<1>>, <<1>>, <<1>>, <<9>> >>,
                           << <<0>>, <<3>>, <<5>>, <<8>> >>, << <<2>>, <<2>>, <<2>>, <<2>> >>,
                           << <<1>>, <<1>>, <<1>>, <<1>>, <<2>> >>}}

\* A..K once each and K once more: 11 distinct values, 10 of them tied
ElevenTexts == [i \in 1..12 |-> PyStr(CatNames[IF i = 12 THEN 11 ELSE i])]

TextSeries ==
    {ElevenTexts} \cup
    {Texts(xs) : xs \in {<<>>, << <<"A">>, <<"B">> >>, << <<"A">>, None >>,
                         << <<"A">>, <<"B">>, <<"A">> >>, << <<"A">>, <<"B">>, <<"C">> >>,
                         << <<"A">>, None, <<"A">> >>, << <<"B">>, <<"A">>, <<"A">> >>,
                         << <<"B">>, <<"A">>, <<"A">>, <<"B">> >>,
                         << <<"A">>, <<"B">>, <<"B">>, None >>,
                         << <<"C">>, <<"A">>, <<"B">>, <<"A">>, <<"B">> >>}}

\* a frame of one column and of two columns of the same length
Frame1(col, series) == DataFrame(<<col>>, [i \in 1..Len(series) |-> (col :> series[i])])
Frame2(a, sa, b, sb) ==
    DataFrame(<<a, b>>, [i \in 1..Len(sa) |-> (a :> sa[i]) @@ (b :> sb[i])])

\* the frame of the JSON object {"p": {"q": 1}, "x": 2}
NestedFrame ==
    DataFrame(<<"p", "x">>, << [p |-> PyDict(<<"q">>, [q |-> PyInt(1)]), x |-> PyInt(2)] >>)

AnalysisFrames ==
    {DataFrame(<<>>, <<>>), DataFrame(<<>>, << <<>>, <<>> >>), NestedFrame}
    \cup {Frame1("name", s) : s \in TextSeries}
    \cup {Frame1("sales", s) : s \in NumericSeries}
    \cup {Frame2("name", f[1], "sales", f[2]) :
            f \in {g \in TextSeries \X NumericSeries : Len(g[1]) = Len(g[2])}}
    \cup {Frame2("x", f[1], "y", f[2]) :
            f \in {g \in SmallSeries \X SmallSeries : Len(g[1]) = Len(g[2])}}

InitAnalyze ==
    /\ df \in AnalysisFrames
    /\ fig = [req |-> NoRequest]
    /\ AppIdle /\ LoadIdle

\* one call of analyze_data
AnalyzeData ==
    /\ analysis = PyNone
    /\ \E build \in Builds : analysis' = analyze_data(df, build)
    /\ UNCHANGED <<df, fig, user, data, charts, current_session_id, user_sessions, db,
                   message, widgets, loadVars>>

\* the caller drops the summary
DropAnalysis ==
    /\ analysis # PyNone
    /\ analysis' = PyNone
    /\ UNCHANGED <<df, fig, user, data, charts, current_session_id, user_sessions, db,
                   message, widgets, loadVars>>

NextAnalyze == AnalyzeData \/ DropAnalysis

SpecAnalyze == InitAnalyze /\ [][NextAnalyze]_vars

(***************************************************************************)
(* The sessions table and save_session, load_sessions, load_session        *)
(* (app_postgres.py).  The table is its rows, whose id is their position,  *)
(* and the ids ordered by updated_at, latest first.                        *)
(***************************************************************************)
\* "for item in data": the column labels of a frame, the elements of a list
iterate(d) ==
    IF d.t = "DataFrame" THEN [i \in 1..Len(d.columns) |-> PyStr(d.columns[i])]
    ELSE d.v

\* the clean_data loop: a dict keeps its members (the cells of the model are
\* text and numbers), anything else becomes str(item)
clean_data_of(d) ==
    PyList([i \in 1..Len(iterate(d)) |->
        IF iterate(d)[i].t = "dict" THEN iterate(d)[i] ELSE PyStr(iterate(d)[i].v)])

\* str(value) of a frame: the text that shows it
str(value) == PyStr(value)

\* the clean_analysis loop: "if analysis:", the int, float, str, bool, None,
\* list and dict values kept and the others (the frames) turned into text
clean_analysis_of(a) ==
    IF a.t = "dict" /\ a.keys # <<>>
    THEN PyDict(a.keys, [key \in DOMAIN a.v |->
                            IF a.v[key].t = "DataFrame" THEN str(a.v[key]) ELSE a.v[key]])
    ELSE PyDict(<<>>, <<>>)

ConfigKeys == <<"type", "title", "x", "y", "use_color", "height", "show_grid">>

\* a chart configuration that forgets the options of the chart
chart_config_without_options(chart) ==
    PyDict(<<"type", "title", "x", "y">>,
           [type |-> PyStr(chart.type), title |-> PyStr(chart.title),
            x |-> PyStr(chart.x), y |-> PyStr(chart.y)])

\* chart_config = {"type": chart["type"], ..., "show_grid": chart.get("show_grid", True)}
chart_config(chart) ==
    PyDict(ConfigKeys,
           [type |-> PyStr(chart.type), title |-> PyStr(chart.title),
            x |-> PyStr(chart.x), y |-> PyStr(chart.y),
            use_color |-> PyBool(chart.use_color), height |-> PyInt(chart.height),
            show_grid |-> PyBool(chart.show_grid)])

chart_configs_of(cs) == PyList([i \in 1..Len(cs) |-> chart_config(cs[i])])

\* no row, whichever id is asked for
FindSession_none(table, id) == None

\* db_session.query(Session).filter(Session.id == id).first()
FindSession(table, id) ==
    IF id \in 1..Len(table.sessions) THEN Some(table.sessions[id]) ELSE None

\* an id moved to the front of the updated_at order
Touch(recency, id) == <<id>> \o SelectSeq(recency, LAMBDA r : r # id)

\* save_session: the id saved under and the table after it; None and the
\* table as it was when the commit raised (rollback).  The three json.dumps
\* stand before the try: what they raise leaves save_session
save_session(user_id, title, d, a, cs, csid, table, commit_ok) ==
    LET data_json == json_dumps(clean_data_of(d))
        analysis_json == json_dumps(clean_analysis_of(a))
        charts_json == json_dumps(chart_configs_of(cs))
        found == IF csid # None THEN FindSession(table, csid[1]) ELSE None
        new_id == Len(table.sessions) + 1
    IN IF ~json_serializable(clean_analysis_of(a))
       THEN Raise("TypeError: Object of type bool_ is not JSON serializable")
       ELSE IF ~commit_ok THEN Return([id |-> None, db |-> table])
       ELSE IF found # None
       THEN Return(
            [id |-> Some(found[1].id),
             db |-> [table EXCEPT
                        !.sessions = [@ EXCEPT ![found[1].id] =
                                        [@ EXCEPT !.title = title, !.data = data_json,
                                                  !.analysis = analysis_json,
                                                  !.charts = charts_json]],
                        !.recency = Touch(@, found[1].id)]])
       ELSE Return(
            [id |-> Some(new_id),
             db |-> [table EXCEPT
                        !.sessions = Append(@,
                                        [id |-> new_id, user_id |-> user_id, title |-> title,
                                         data |-> data_json, analysis |-> analysis_json,
                                         charts |-> charts_json]),
                        !.recency = <<new_id>> \o @]])

\* the sessions of every user, latest update first
load_sessions_of_all(table, user_id) ==
    [i \in 1..Len(table.recency) |->
        [id |-> table.recency[i], title |-> table.sessions[table.recency[i]].title]]

\* load_sessions: the user's sessions, latest update first
load_sessions(table, user_id) ==
    LET mine == SelectSeq(table.recency, LAMBDA id : table.sessions[id].user_id = user_id)
    IN [i \in 1..Len(mine) |-> [id |-> mine[i], title |-> table.sessions[mine[i]].title]]

\* load_session: the row as a dict, its three JSON columns parsed; None if
\* there is no such row
load_session(table, session_id) ==
    LET session == FindSession(table, session_id)
    IN IF session = None THEN None
       ELSE Some([id |-> session[1].id, user_id |-> session[1].user_id,
                  title |-> session[1].title,
                  data |-> json_loads(session[1].data),
                  analysis |-> json_loads(session[1].analysis),
                  charts |-> json_loads(session[1].charts)])

\* pd.DataFrame(data): a frame as it is; a list of dicts as one row each; a
\* list of anything else as the single column 0 (written "0")
pd_DataFrame(d) ==
    IF d.t = "DataFrame" THEN d
    ELSE IF d.t = "list" /\ d.v # <<>> /\ \A i \in 1..Len(d.v) : d.v[i].t = "dict"
    THEN DataFrame(d.v[1].keys,
                   [i \in 1..Len(d.v) |-> [k \in DOMAIN d.v[i].v |-> d.v[i].v[k]]])
    ELSE IF d.t = "list"
    THEN DataFrame(<<"0">>, [i \in 1..Len(d.v) |-> [k \in {"0"} |-> d.v[i]]])
    ELSE DataFrame(<<>>, <<>>)

\* the generate_chart call of Load Visualization on a stored configuration
recreate_chart(d, config) ==
    generate_chart(pd_DataFrame(d), config.v["type"].v, config.v["x"].v,
                   Get(config, "y", None), Some(Get(config, "title", <<"Chart">>)),
                   Get(config, "use_color", TRUE), Get(config, "height", 400),
                   Get(config, "show_grid", TRUE))

\* the entry of st.session_state.charts made from a configuration and its figure
recreated_entry(config, figure) ==
    [type |-> config.v["type"].v, figure |-> figure,
     title |-> Get(config, "title", <<"Chart">>), x |-> config.v["x"].v,
     y |-> Get(config, "y", None), use_color |-> Get(config, "use_color", TRUE),
     height |-> Get(config, "height", 400), show_grid |-> Get(config, "show_grid", TRUE)]

\* "Recreate charts": the configurations whose chart could be built, in order
RECURSIVE recreate_charts(_, _)
recreate_charts(d, configs) ==
    IF configs = <<>> THEN <<>>
    ELSE LET built == IF d.t = "list" /\ d.v # <<>>
                      THEN recreate_chart(d, Head(configs))
                      ELSE Raise("skipped")
         IN (IF built.raised THEN <<>> ELSE <<recreated_entry(Head(configs), built.value)>>)
                \o recreate_charts(d, Tail(configs))

(***************************************************************************)
(* The script of app_postgres.py for a logged-in user.  One action is one  *)
(* run of the script with one button pressed, the run that st.rerun()      *)
(* starts included; message is what the page shows when the action ends.   *)
(***************************************************************************)
Say(level, text) == [level |-> level, text |-> text]

\* columns = list(data[0].keys() if isinstance(data, list) else data.columns)
chart_section_columns(d) ==
    IF d.t = "list"
    THEN IF d.v = <<>> THEN Raise("IndexError")
         ELSE IF d.v[1].t = "dict" THEN Return(d.v[1].keys)
         ELSE Raise("AttributeError")
    ELSE Return(d.columns)

\* what a run adds to the page below the sidebar buttons: the chart section
\* is drawn whenever there is data, and its column list may raise
PageTail(d, shown) ==
    IF d.t # "NoneType" /\ chart_section_columns(d).raised
    THEN Append(shown, Say("exception", chart_section_columns(d).error))
    ELSE shown

\* str.capitalize() of a chart type
capitalize(type) ==
    CASE type = "bar" -> "Bar" [] type = "line" -> "Line" [] type = "scatter" -> "Scatter"
      [] type = "pie" -> "Pie" [] type = "area" -> "Area" [] type = "histogram" -> "Histogram"
      [] type = "box" -> "Box" [] type = "violin" -> "Violin" [] type = "donut" -> "Donut"

\* the default of the "Chart Title" input
chart_title(w) == <<capitalize(w.chart_type), " of ", w.y_column, " by ", w.x_column>>

\* the entry "Generate Chart" appends for the selected widgets
chart_entry(w, figure) ==
    [type |-> w.chart_type, figure |-> figure, title |-> chart_title(w),
     x |-> w.x_column, y |-> w.y_column, use_color |-> w.use_color,
     height |-> w.chart_height, show_grid |-> w.show_grid]

\* the generate_chart call of "Generate Chart"
widget_chart(d, w) ==
    generate_chart(pd_DataFrame(d), w.chart_type, w.x_column, w.y_column,
                   Some(chart_title(w)), w.use_color, w.chart_height, w.show_grid)

\* if st.button("Generate Chart")
ClickGenerateChart ==
    /\ user # None /\ uploaded_file = None
    /\ data.t # "NoneType"
    /\ Len(charts) < MaxCharts
    /\ LET columns == chart_section_columns(data)
       IN IF columns.raised
          THEN /\ message' = PageTail(data, <<>>)
               /\ UNCHANGED charts
          ELSE /\ IsIn(columns.value, widgets.x_column)
               /\ IsIn(columns.value, widgets.y_column)
               /\ LET chart == widget_chart(data, widgets)
                  IN IF chart.raised
                     THEN /\ message' = <<Say("error", "Error creating chart")>>
                          /\ UNCHANGED charts
                     ELSE /\ charts' = Append(charts, chart_entry(widgets, chart.value))
                          /\ message' = <<Say("success", "Chart created!")>>
    /\ UNCHANGED <<user, data, analysis, current_session_id, user_sessions, db, widgets,
                   chartVars, loadVars>>

\* the title "Save Visualization" finds: session_title is a local of the
\* "Create New" branch only
current_title(viz_action) ==
    IF viz_action = "Create New" THEN "New Visualization" ELSE "Untitled Visualization"

\* if st.session_state.data is not None and st.button("Save Visualization");
\* an exception that leaves save_session ends the run of the script
ClickSaveVisualization ==
    /\ user # None /\ uploaded_file = None
    /\ data.t # "NoneType"
    /\ \E viz_action \in {"Create New", "Load Saved"}, commit_ok \in BOOLEAN :
          LET call == save_session(user[1].id, current_title(viz_action), data, analysis,
                                   charts, current_session_id, db, commit_ok)
              saved == call.value
          IN IF call.raised
             THEN /\ message' = <<Say("exception", call.error)>>
                  /\ UNCHANGED <<current_session_id, db, user_sessions>>
             ELSE /\ Len(saved.db.sessions) <= MaxSessions
                  /\ IF saved.id # None
                     THEN /\ current_session_id' = saved.id
                          /\ db' = saved.db
                          /\ user_sessions' = load_sessions(saved.db, user[1].id)
                          /\ message' = PageTail(data,
                                 <<Say("success", "Visualization saved successfully!")>>)
                     ELSE /\ message' = PageTail(data,
                                 <<Say("error", "Failed to save visualization.")>>)
                          /\ UNCHANGED <<current_session_id, db, user_sessions>>
    /\ UNCHANGED <<user, data, analysis, charts, widgets, chartVars, loadVars>>

\* if st.button("Load Visualization"), and the run st.rerun() starts
ClickLoadVisualization ==
    /\ user # None /\ uploaded_file = None
    /\ user_sessions # <<>>
    /\ \E selected_idx \in 1..Len(user_sessions) :
          LET session_data == load_session(db, user_sessions[selected_idx].id)
          IN IF session_data = None
             THEN /\ message' = PageTail(data, <<>>)
                  /\ UNCHANGED <<data, analysis, current_session_id, charts>>
             ELSE /\ data' = session_data[1].data
                  /\ analysis' = session_data[1].analysis
                  /\ current_session_id' = Some(session_data[1].id)
                  /\ charts' = recreate_charts(session_data[1].data, session_data[1].charts.v)
                  /\ message' = PageTail(session_data[1].data, <<>>)
    /\ UNCHANGED <<user, user_sessions, db, widgets, chartVars, loadVars>>

\* if st.button("Create New Session"), and the run st.rerun() starts
ClickCreateNewSession ==
    /\ user # None /\ uploaded_file = None
    /\ data' = PyNone /\ analysis' = PyNone /\ charts' = <<>>
    /\ current_session_id' = None
    /\ message' = <<>>
    /\ UNCHANGED <<user, user_sessions, db, widgets, chartVars, loadVars>>

(***************************************************************************)
(* Accounts: the users table, and the Login, Register and Logout buttons.  *)
(***************************************************************************)
\* hashlib.sha256(password.encode()).hexdigest(): a digest that differs from
\* the password and is equal for equal passwords only
hash_password(password) == [sha256 |-> password]

\* db_session.query(User).filter(User.username == username).first()
FindUser(table, username) ==
    LET hits == SelectSeq(table.users, LAMBDA u : u.username = username)
    IN IF hits = <<>> THEN None ELSE Some(hits[1])

\* register_user: (False, message) for a name that is taken or a commit that
\* raised, (True, id) and the table with the new row otherwise
register_user(username, password, table, commit_ok) ==
    IF FindUser(table, username) # None
    THEN [success |-> FALSE, result |-> "Username already registered", db |-> table]
    ELSE IF ~commit_ok
    THEN [success |-> FALSE, result |-> "commit failed", db |-> table]
    ELSE [success |-> TRUE, result |-> "",
          db |-> [table EXCEPT !.users =
                    Append(@, [id |-> Len(@) + 1, username |-> username,
                               password |-> hash_password(password)])]]

\* login_user: (True, user_dict) or (False, message)
login_user(username, password, table) ==
    LET found == FindUser(table, username)
    IN IF found = None
       THEN [success |-> FALSE, result |-> "User not found"]
       ELSE IF found[1].password # hash_password(password)
       THEN [success |-> FALSE, result |-> "Incorrect password"]
       ELSE [success |-> TRUE,
             result |-> [id |-> found[1].id, username |-> found[1].username]]

\* what the text inputs of the sign-in form hold; "" is an input left empty
Usernames == {"", "u1", "u2"}
Passwords == {"", "p", "q"}

\* if st.button("Login"), and the run st.rerun() starts
ClickLogin ==
    /\ user = None
    /\ \E login_username \in Usernames, login_password \in Passwords :
          IF login_username # "" /\ login_password # ""
          THEN LET answer == login_user(login_username, login_password, db)
               IN IF answer.success
                  THEN /\ user' = Some(answer.result)
                       /\ user_sessions' = load_sessions(db, answer.result.id)
                       /\ message' = PageTail(data, <<>>)
                  ELSE /\ message' = <<Say("error", answer.result)>>
                       /\ UNCHANGED <<user, user_sessions>>
          ELSE /\ message' = <<Say("warning", "Please enter both username and password")>>
               /\ UNCHANGED <<user, user_sessions>>
    /\ UNCHANGED <<data, analysis, charts, current_session_id, db, widgets, chartVars,
                   loadVars>>

\* if st.button("Register")
ClickRegister ==
    /\ user = None
    /\ \E reg_username \in Usernames, reg_password \in {"", "p"}, reg_password2 \in Passwords,
          commit_ok \in BOOLEAN :
          IF reg_username # "" /\ reg_password # ""
          THEN IF reg_password # reg_password2
               THEN /\ message' = <<Say("error", "Passwords do not match")>>
                    /\ UNCHANGED db
               ELSE LET answer == register_user(reg_username, reg_password, db, commit_ok)
                    IN /\ db' = answer.db
                       /\ message' =
                            IF answer.success
                            THEN <<Say("success", "Registration successful! Please login.")>>
                            ELSE <<Say("error", answer.result)>>
          ELSE /\ message' = <<Say("warning", "Please fill all fields")>>
               /\ UNCHANGED db
    /\ UNCHANGED <<user, data, analysis, charts, current_session_id, user_sessions, widgets,
                   chartVars, loadVars>>

\* if st.button("Logout"), and the run st.rerun() starts: the sidebar is not
\* drawn for a visitor, and a file uploader that is not drawn loses its file
ClickLogout ==
    /\ user # None
    /\ user' = None /\ data' = PyNone /\ analysis' = PyNone /\ charts' = <<>>
    /\ current_session_id' = None
    /\ uploaded_file' = None
    /\ message' = <<>>
    /\ UNCHANGED <<user_sessions, db, widgets, chartVars, loaded>>

(***************************************************************************)
(* The file uploader.                                                      *)
(***************************************************************************)
\* st.success(f"File loaded successfully with {rows} rows and {columns} columns")
FileLoaded(rows, columns) ==
    [level |-> "success", text |-> "File loaded successfully", rows |-> rows,
     columns |-> columns]

\* len(st.session_state.analysis['columns']); a KeyError when the summary
\* has no such key
columns_of(a) ==
    IF "columns" \in DOMAIN a.v THEN Return(Len(a.v["columns"].v)) ELSE Raise("'columns'")

\* the try block under "if uploaded_file is not None", from its last
\* statement back to its first: st.session_state.data and .analysis after
\* it, and what it reported; the except branch reports str(e) of whichever
\* statement raised.  st.success(...) with the counts
reported(loaded_data, results, columns) ==
    IF columns.raised
    THEN [data |-> loaded_data, analysis |-> results,
          shown |-> <<Say("error", columns.error)>>]
    ELSE [data |-> loaded_data, analysis |-> results,
          shown |-> <<FileLoaded(Len(loaded_data.rows), columns.value)>>]

\* st.session_state.analysis = analyze_data(st.session_state.data)
analyzed(loaded_data, results, a) ==
    IF results.raised
    THEN [data |-> loaded_data, analysis |-> a, shown |-> <<Say("error", results.error)>>]
    ELSE reported(loaded_data, results.value, columns_of(results.value))

\* st.session_state.data = load_file(uploaded_file)
upload(answer, d, a, build) ==
    IF answer.raised
    THEN [data |-> d, analysis |-> a, shown |-> <<Say("error", answer.error)>>]
    ELSE analyzed(answer.value, analyze_data(answer.value, build), a)

\* [{"x": [1]}]: a record that holds a list
ListArray == JArray(<< JObject(<<"x">>, [x |-> JArray(<<JNumber(1)>>)]) >>)

\* a file d.csv of the header name,sales and the lines given
UploadCsv(lines) ==
    [name |-> <<"d", ".", "c", "s", "v">>,
     content |-> [kind |-> "csv", utf8 |-> TRUE, header |-> Columns, lines |-> lines,
                  chunk_end |-> Len(lines) + 1],
     pos |-> 0]

\* a file of JSON text under the name given
UploadJson(name, root) ==
    [name |-> name,
     content |-> [kind |-> "json", utf8 |-> TRUE, parses |-> TRUE, root |-> root],
     pos |-> 0]

\* name,sales / A,10 / A,5
SalesFile == UploadCsv(<< <<PyStr("A"), PyInt(10)>>, <<PyStr("A"), PyInt(5)>> >>)
\* a file the loader does not know the type of
TextFile == UploadJson(<<"d", ".", "t", "x", "t">>, ExampleArray)

\* name,sales / B,20 / B,5
OtherSalesFile == UploadCsv(<< <<PyStr("B"), PyInt(20)>>, <<PyStr("B"), PyInt(5)>> >>)

\* the files a user uploads: the sales, the other sales, the record that
\* holds a list, and the .txt file
Uploads ==
    { SalesFile,
      OtherSalesFile,
      UploadJson(<<"d", ".", "j", "s", "o", "n">>, ListArray),
      TextFile }

\* a file of files put into the uploader, and the run of the script this
\* starts, under whichever build; builds that leave the same are one outcome
UploadFrom(files) ==
    /\ user # None /\ uploaded_file = None
    /\ \E f \in files :
          \E done \in {upload(load_file(f), data, analysis, build) : build \in Builds} :
             /\ data' = done.data
             /\ analysis' = done.analysis
             /\ message' = PageTail(done.data, done.shown)
             /\ uploaded_file' = Some(after_load_file(f))
    /\ UNCHANGED <<user, charts, current_session_id, user_sessions, db, widgets, chartVars,
                   loaded>>

UploadFile == UploadFrom(Uploads)

\* the upload of a user who keeps to one dataset
UploadSales == UploadFrom({SalesFile})

\* the file taken out of the uploader again, and the run of the script this
\* starts
RemoveFile ==
    /\ user # None /\ uploaded_file # None
    /\ uploaded_file' = None
    /\ message' = PageTail(data, <<>>)
    /\ UNCHANGED <<user, data, analysis, charts, current_session_id, user_sessions, db,
                   widgets, chartVars, loaded>>

\* the chart type and columns a recommendation names; a KeyError or an
\* IndexError when it lacks them
recommended(rec) ==
    IF rec.t # "dict" THEN Raise("TypeError")
    ELSE IF "chart_type" \notin DOMAIN rec.v \/ "columns" \notin DOMAIN rec.v
    THEN Raise("KeyError")
    ELSE IF rec.v["columns"].v = <<>> THEN Raise("IndexError")
    ELSE Return([chart_type |-> rec.v["chart_type"].v,
                 x_col |-> rec.v["columns"].v[1].v,
                 y_col |-> IF Len(rec.v["columns"].v) > 1 THEN rec.v["columns"].v[2].v
                           ELSE ""])

\* the title of a recommended chart
recommended_title(r) ==
    IF r.y_col # "" THEN <<capitalize(r.chart_type), " of ", r.y_col, " by ", r.x_col>>
    ELSE <<capitalize(r.chart_type), " of ", r.x_col>>

\* the entry "Generate Recommended Charts" appends for a recommendation
recommended_entry(r, figure) ==
    [type |-> r.chart_type, figure |-> figure, title |-> recommended_title(r),
     x |-> r.x_col, y |-> r.y_col, use_color |-> TRUE, height |-> 400, show_grid |-> TRUE]

\* "for rec in recommendations": the entries of the charts that could be
\* built, in order; a recommendation that raises is passed over
RECURSIVE recommended_charts(_, _)
recommended_charts(d, recs) ==
    IF recs = <<>> THEN <<>>
    ELSE LET r == recommended(Head(recs))
             built == IF r.raised THEN r
                      ELSE generate_chart(pd_DataFrame(d), r.value.chart_type, r.value.x_col,
                                          r.value.y_col, Some(recommended_title(r.value)),
                                          TRUE, 400, TRUE)
         IN (IF built.raised THEN <<>> ELSE <<recommended_entry(r.value, built.value)>>)
                \o recommended_charts(d, Tail(recs))

\* st.success(f"Generated {successful_charts} charts! ...")
Generated(successful_charts) ==
    [level |-> "success", text |-> "Generated charts!", count |-> successful_charts]

NoRecommendations ==
    Say("warning", "No chart recommendations available. Please upload data first.")

\* if st.button("Generate Recommended Charts"); the button is drawn when the
\* column list of the chart section could be made
ClickGenerateRecommendedCharts ==
    /\ user # None /\ uploaded_file = None
    /\ data.t # "NoneType"
    /\ ~chart_section_columns(data).raised
    /\ IF analysis.t = "dict" /\ analysis.keys # <<>> /\ "recommendations" \in DOMAIN analysis.v
       THEN LET made == recommended_charts(data, analysis.v["recommendations"].v)
            IN /\ Len(charts) + Len(made) <= MaxCharts
               /\ charts' = charts \o made
               /\ message' = <<Generated(Len(made))>>
       ELSE /\ message' = <<NoRecommendations>>
            /\ UNCHANGED charts
    /\ UNCHANGED <<user, data, analysis, current_session_id, user_sessions, db, widgets,
                   chartVars, loadVars>>

\* the (chart_type, x_col, y_col) of "for chart_type in selected_types: for
\* x_col in x_columns: for y_col in y_columns", in the order of the loops
combinations(selected_types, x_columns, y_columns) ==
    LET nx == Len(x_columns)
        ny == Len(y_columns)
    IN [k \in 1..(Len(selected_types) * nx * ny) |->
           [chart_type |-> selected_types[((k - 1) \div (nx * ny)) + 1],
            x_col |-> x_columns[(((k - 1) \div ny) % nx) + 1],
            y_col |-> y_columns[((k - 1) % ny) + 1]]]

\* title = f"{chart_type.capitalize()} of {y_col} by {x_col}"
multiple_title(c) == <<capitalize(c.chart_type), " of ", c.y_col, " by ", c.x_col>>

\* the entry "Create Multiple Charts" appends for a combination
multiple_entry(c, figure) ==
    [type |-> c.chart_type, figure |-> figure, title |-> multiple_title(c),
     x |-> c.x_col, y |-> c.y_col, use_color |-> TRUE, height |-> 400, show_grid |-> TRUE]

\* the loops of "Create Multiple Charts" that stop at the first chart that
\* cannot be built
RECURSIVE multiple_charts_until_failure(_, _)
multiple_charts_until_failure(d, cs) ==
    IF cs = <<>> THEN <<>>
    ELSE LET c == Head(cs)
             built == generate_chart(pd_DataFrame(d), c.chart_type, c.x_col, c.y_col,
                                     Some(multiple_title(c)), TRUE, 400, TRUE)
         IN IF built.raised THEN <<>>
            ELSE <<multiple_entry(c, built.value)>> \o multiple_charts_until_failure(d, Tail(cs))

\* the loops of "Create Multiple Charts": the entries of the charts that
\* could be built, in order; "except Exception: pass" skips the others
RECURSIVE multiple_charts(_, _)
multiple_charts(d, cs) ==
    IF cs = <<>> THEN <<>>
    ELSE LET c == Head(cs)
             built == generate_chart(pd_DataFrame(d), c.chart_type, c.x_col, c.y_col,
                                     Some(multiple_title(c)), TRUE, 400, TRUE)
         IN (IF built.raised THEN <<>> ELSE <<multiple_entry(c, built.value)>>)
                \o multiple_charts(d, Tail(cs))

\* st.success(f"Successfully created {created_charts} charts! ...")
Created(created_charts) ==
    [level |-> "success", text |-> "Successfully created charts!", count |-> created_charts]

NothingSelected ==
    Say("warning", "Please select at least one X column, Y column, and chart type")

\* if st.button("Create Multiple Charts"); the button is drawn when the
\* column list of the chart section could be made
ClickCreateMultipleCharts ==
    /\ user # None /\ uploaded_file = None
    /\ data.t # "NoneType"
    /\ ~chart_section_columns(data).raised
    /\ \A i \in 1..Len(widgets.x_columns) :
          IsIn(chart_section_columns(data).value, widgets.x_columns[i])
    /\ \A i \in 1..Len(widgets.y_columns) :
          IsIn(chart_section_columns(data).value, widgets.y_columns[i])
    /\ IF widgets.x_columns = <<>> \/ widgets.y_columns = <<>> \/ widgets.selected_types = <<>>
       THEN /\ message' = <<NothingSelected>>
            /\ UNCHANGED charts
       ELSE LET made == multiple_charts(data, combinations(widgets.selected_types,
                                                          widgets.x_columns, widgets.y_columns))
            IN /\ Len(charts) + Len(made) <= MaxCharts
               /\ charts' = charts \o made
               /\ message' = <<Created(Len(made))>>
    /\ UNCHANGED <<user, data, analysis, current_session_id, user_sessions, db, widgets,
                   chartVars, loadVars>>

(***************************************************************************)
(* Sessions of one user: a frame has been uploaded and the file taken out  *)
(* of the uploader again; the chart widgets stay as selected.              *)
(***************************************************************************)
\* name,sales / A,10 / B,20
TwoRows ==
    << [name |-> PyStr("A"), sales |-> PyInt(10)], [name |-> PyStr("B"), sales |-> PyInt(20)] >>

SessionFrames ==
    {Frame(TwoRows), Frame(ExampleRows), Frame(GenRows(CollapseThreshold + 1, 4, 0, 0))}

\* what the three multiselects hold: the defaults, a pie of name by name
\* (which cannot be built) before a pie of sales by name, and no Y column
MultiChoices ==
    {[selected_types |-> <<"bar">>, x_columns |-> <<"name">>, y_columns |-> <<"sales">>],
     [selected_types |-> <<"pie">>, x_columns |-> <<"name">>, y_columns |-> <<"name", "sales">>],
     [selected_types |-> <<"bar">>, x_columns |-> <<"name">>, y_columns |-> <<>>]}

WidgetChoices ==
    {[chart_type |-> type, x_column |-> "name", y_column |-> "sales",
      use_color |-> o.use_color, chart_height |-> o.chart_height, show_grid |-> o.show_grid,
      selected_types |-> m.selected_types, x_columns |-> m.x_columns,
      y_columns |-> m.y_columns] :
        type \in {available_chart_types[i] : i \in 1..Len(available_chart_types)},
        o \in {[use_color |-> TRUE, chart_height |-> 500, show_grid |-> TRUE],
               [use_color |-> FALSE, chart_height |-> 300, show_grid |-> FALSE]},
        m \in MultiChoices}

InitSession ==
    /\ user = Some([id |-> 1, username |-> "u1"])
    /\ data \in SessionFrames
    /\ \E build \in Builds : analysis = analyze_data(data, build).value
    /\ charts = <<>>
    /\ current_session_id = None
    /\ user_sessions = <<>>
    /\ db = [users |-> <<[id |-> 1, username |-> "u1", password |-> hash_password("p")]>>,
             sessions |-> <<>>, recency |-> <<>>]
    /\ message = <<>>
    /\ widgets \in WidgetChoices
    /\ df = Frame(<<>>) /\ fig = [req |-> NoRequest]
    /\ LoadIdle

NextSession ==
    \/ ClickGenerateChart
    \/ ClickGenerateRecommendedCharts
    \/ ClickCreateMultipleCharts
    \/ ClickSaveVisualization
    \/ ClickLoadVisualization
    \/ ClickCreateNewSession

SpecSession == InitSession /\ [][NextSession]_vars

(***************************************************************************)
(* The application from a first visit: nobody is signed in, no account and *)
(* no saved session exists.  The buttons of the page are pressed while the *)
(* uploader is empty.  SpecUpload follows the datasets and the charts of a *)
(* visit, SpecAccounts the accounts and the saved sessions.                *)
(***************************************************************************)
\* the chart one user draws: a bar chart of sales by name
AppWidgets ==
    {w \in WidgetChoices :
        /\ w.chart_type = "bar" /\ w.use_color /\ w.show_grid /\ w.chart_height = 500
        /\ w.selected_types = <<"bar">> /\ w.y_columns = <<"sales">>}

InitApp ==
    /\ user = None /\ data = PyNone /\ analysis = PyNone /\ charts = <<>>
    /\ current_session_id = None /\ user_sessions = <<>>
    /\ db = [users |-> <<>>, sessions |-> <<>>, recency |-> <<>>]
    /\ message = <<>>
    /\ widgets \in AppWidgets
    /\ df = Frame(<<>>) /\ fig = [req |-> NoRequest]
    /\ LoadIdle

NextUpload ==
    \/ ClickRegister
    \/ ClickLogin
    \/ ClickLogout
    \/ UploadFile
    \/ RemoveFile
    \/ ClickGenerateChart
    \/ ClickCreateNewSession

SpecUpload == InitApp /\ [][NextUpload]_vars

NextAccounts ==
    \/ ClickRegister
    \/ ClickLogin
    \/ ClickLogout
    \/ UploadSales
    \/ RemoveFile
    \/ ClickSaveVisualization
    \/ ClickLoadVisualization
    \/ ClickCreateNewSession

SpecAccounts == InitApp /\ [][NextAccounts]_vars

(***************************************************************************)
(* What the claims speak of, stated from the frame and not from the code.  *)
(***************************************************************************)
\* the summed y of the rows whose x is k
Total(d, x, y, k) == SumSeq(CellsOf(d.rows, x, k, y))

\* how many groups come before k when the groups are ordered by descending
\* total (equal totals by key)
Rank(d, x, y, k) ==
    Cardinality({g \in Distinct(d, x) :
        \/ Total(d, x, y, g) > Total(d, x, y, k)
        \/ Total(d, x, y, g) = Total(d, x, y, k) /\ CatIdx(g) < CatIdx(k)})

RECURSIVE SumOver(_, _, _, _)
SumOver(d, x, y, ks) ==
    IF ks = {} THEN 0
    ELSE LET k == CHOOSE a \in ks : TRUE
         IN Total(d, x, y, k) + SumOver(d, x, y, ks \ {k})

\* the summed y of the groups beyond the top_n largest
RestTotal(d, x, y) == SumOver(d, x, y, {k \in Distinct(d, x) : Rank(d, x, y, k) >= top_n})

SliceNames(f) == {f.slices[i].name : i \in 1..Len(f.slices)}

\* a pie or donut request over the text column and the number column
PieRequest == fig.req.made /\ fig.req.type \in {"pie", "donut"}
                /\ fig.req.x = "name" /\ fig.req.y = "sales"

\* every slice but "Other" is a group of the frame with its own total, no
\* group is drawn twice, and no group left out has a larger total than one drawn
TopGroups(d, f, n) ==
    LET own == {i \in 1..Len(f.slices) : f.slices[i].name # "Other"}
    IN /\ Cardinality(own) = n
       /\ \A i \in own : /\ f.slices[i].name \in Distinct(d, "name")
                         /\ f.slices[i].value = Total(d, "name", "sales", f.slices[i].name)
       /\ \A i, j \in own : f.slices[i].name = f.slices[j].name => i = j
       /\ \A i \in own : \A g \in Distinct(d, "name") \ SliceNames(f) :
              Total(d, "name", "sales", g) <= f.slices[i].value

\* "Other" is drawn once, with the summed y of the groups left out
OtherSlice(d, f) ==
    /\ Cardinality({i \in 1..Len(f.slices) : f.slices[i].name = "Other"}) = 1
    /\ \A i \in 1..Len(f.slices) :
          f.slices[i].name = "Other" => f.slices[i].value = RestTotal(d, "name", "sales")

\* C1: a pie or donut request over an x-column with exactly 11 distinct
\* values yields exactly 10 slices when the groups beyond the top 9 sum to a
\* nonzero value, and exactly 9 slices when they sum to zero.
C1_ElevenCategories ==
    (PieRequest /\ nunique(df, "name") = CollapseThreshold + 1) =>
        /\ ~fig.res.raised
        /\ Len(fig.res.value.slices) =
              IF RestTotal(df, "name", "sales") # 0 THEN top_n + 1 ELSE top_n

\* C2: for every pie or donut request whose x-column has more than 10
\* distinct values the chart is the 9 groups with the largest summed y, each
\* with its own sum, plus one 'Other' slice holding the sum of the remaining
\* groups; 'Other' is left out only when that sum is zero; never more than 10
\* slices, also when the remaining sum is negative.
C2_CollapseIntoOther ==
    (PieRequest /\ nunique(df, "name") > CollapseThreshold) =>
        /\ ~fig.res.raised
        /\ TopGroups(df, fig.res.value, top_n)
        /\ IF RestTotal(df, "name", "sales") # 0
           THEN OtherSlice(df, fig.res.value)
           ELSE "Other" \notin SliceNames(fig.res.value)
        /\ Len(fig.res.value.slices) <= top_n + 1

\* C3: for a pie request whose x-column has at most 10 distinct values the
\* chart has exactly one slice per distinct x value, its value the sum of y
\* over the rows with that x value, and no 'Other' slice.
C3_PieGroupSum ==
    (PieRequest /\ fig.req.type = "pie" /\ nunique(df, "name") <= CollapseThreshold) =>
        /\ ~fig.res.raised
        /\ Len(fig.res.value.slices) = nunique(df, "name")
        /\ SliceNames(fig.res.value) = Distinct(df, "name")
        /\ \A i \in 1..Len(fig.res.value.slices) :
              fig.res.value.slices[i].value =
                  Total(df, "name", "sales", fig.res.value.slices[i].name)
        /\ "Other" \notin SliceNames(fig.res.value)

\* the rows (A,10),(B,20),(A,5) drawn as the two slices A=15 and B=20
C3_Witness ==
    /\ PieRequest /\ fig.req.type = "pie"
    /\ df.rows = ExampleRows
    /\ ~fig.res.raised
    /\ fig.res.value.slices = << [name |-> "A", value |-> 15], [name |-> "B", value |-> 20] >>

Returned == fig.req.made /\ ~fig.res.raised

\* C4: every chart generate_chart returns, collapsed pies and donuts
\* included, has its title centered and the gridlines-visible theme exactly
\* when show_grid is true, the gridlines-hidden theme otherwise.
C4_LayoutNormalized ==
    Returned =>
        /\ fig.res.value.layout.title_x = Some(TitleXCenter)
        /\ fig.res.value.layout.template =
              IF fig.req.show_grid THEN "plotly" ELSE "plotly_white"

\* the trace type px draws a chart type with
GeomOf(type) == IF type = "donut" THEN "pie" ELSE type

\* C5: generate_chart returns a chart for each of the nine chart types when
\* the columns exist and are compatible, and raises for any other type.
C5_NineTypes ==
    fig.req.made =>
        /\ (fig.req.type \in ChartTypes /\ fig.req.x = "name" /\ fig.req.y = "sales") =>
              (~fig.res.raised /\ fig.res.value.geom = GeomOf(fig.req.type))
        /\ fig.req.type \notin ChartTypes =>
              (fig.res.raised /\ fig.res.error = "ValueError: Unsupported chart type")

\* a donut was asked for and drawn
C5_Witness ==
    /\ Returned /\ fig.req.type = "donut"
    /\ fig.res.value.geom = "pie" /\ fig.res.value.hole = DonutHole

\* C6 as claimed: for every chart type a request whose x-column or y-column
\* names no column of the frame fails, the histogram included.
C6_MissingColumnFails ==
    (fig.req.made /\ (~HasColumn(df, fig.req.x) \/ ~HasColumn(df, fig.req.y))) =>
        fig.res.raised

\* C6 as the code has it: a missing x-column fails for every chart type; a
\* missing y-column fails for every chart type but the histogram drawn
\* without color coding, which never reads y and returns its chart.
C6_MissingColumn ==
    fig.req.made =>
        /\ ~HasColumn(df, fig.req.x) => fig.res.raised
        /\ (HasColumn(df, fig.req.x) /\ ~HasColumn(df, fig.req.y)
                /\ fig.req.type \in ChartTypes) =>
              (fig.res.raised <=> ~(fig.req.type = "histogram" /\ ~fig.req.use_color))

\* a color-coded histogram asked for with the empty y of a one-column
\* recommendation fails
C6_Witness ==
    /\ fig.req.made /\ fig.req.type = "histogram" /\ fig.req.x = "name" /\ fig.req.y = ""
    /\ fig.req.use_color
    /\ fig.res.raised

\* C7: for the same frame and the same request fields a donut request and a
\* pie request give the same slices, collapsed or not, and differ only in
\* the hole: 0.4 for the donut, none for the pie.
C7_DonutIsPieWithHole ==
    (fig.req.made /\ fig.req.type = "donut") =>
        LET pie == Build(df, [fig.req EXCEPT !.type = "pie"])
        IN /\ pie.raised = fig.res.raised
           /\ ~pie.raised =>
                 /\ fig.res.value.slices = pie.value.slices
                 /\ pie.value.hole = NoHole
                 /\ fig.res.value = [pie.value EXCEPT !.hole = DonutHole]

\* a donut over more than 10 categories that was collapsed into 'Other'
C7_Witness ==
    /\ PieRequest /\ fig.req.type = "donut" /\ ~fig.res.raised
    /\ nunique(df, "name") > CollapseThreshold
    /\ "Other" \in SliceNames(fig.res.value)
    /\ fig.res.value.hole = DonutHole

\* the names whose lower-cased extension is csv, and those where it is json
CsvNames ==
    { <<"d", ".", "c", "s", "v">>, <<"d", ".", "C", "S", "V">>, <<"d", ".", "C", "s", "v">>,
      <<"d", ".", "j", "s", "o", "n", ".", "c", "s", "v">>, <<"c", "s", "v">> }
JsonNames ==
    { <<"d", ".", "j", "s", "o", "n">>, <<"d", ".", "J", "S", "O", "N">>,
      <<"d", ".", "c", "s", "v", ".", "j", "s", "o", "n">>, <<"j", "s", "o", "n">> }

\* C10: load_file fails with the unsupported-format error, and gives no
\* table, exactly when the lower-cased extension of the uploaded file is
\* neither csv nor json.
C10_UnsupportedFormat ==
    loaded # None =>
        ((loaded[1].res.raised /\ loaded[1].res.error = "Unsupported file type")
            <=> loaded[1].file.name \notin CsvNames \cup JsonNames)

\* d.csv.txt was refused as unsupported
C10_Witness ==
    /\ loaded # None
    /\ loaded[1].file.name = <<"d", ".", "c", "s", "v", ".", "t", "x", "t">>
    /\ loaded[1].res.raised /\ loaded[1].res.error = "Unsupported file type"

\* the page reports a save that went through
SavedNow == IsIn(message, Say("success", "Visualization saved successfully!"))

\* the request fields of a chart entry
RequestFields(c) ==
    [type |-> c.type, x |-> c.x, y |-> c.y, title |-> c.title, use_color |-> c.use_color,
     height |-> c.height, show_grid |-> c.show_grid]

\* a chart entry's request with another chart type, stored and read back
StoredAs(c, type) == json_loads(json_dumps(chart_config([c EXCEPT !.type = type])))

\* C8: a chart request saved by save_session and read back by load_session
\* keeps its type, x, y, title, use_color, height and show_grid, and the
\* chart rebuilt from it against the same data is the chart built directly,
\* for each of the nine chart types.
C8_RequestRoundTrip ==
    SavedNow =>
        LET session == load_session(db, current_session_id[1])
        IN /\ session # None
           /\ Len(session[1].charts.v) = Len(charts)
           /\ \A i \in 1..Len(charts) :
                 LET config == session[1].charts.v[i]
                     rebuilt == recreate_chart(data, config)
                 IN /\ ~rebuilt.raised
                    /\ RequestFields(recreated_entry(config, rebuilt.value))
                          = RequestFields(charts[i])
                    /\ rebuilt.value = charts[i].figure
                    /\ \A type \in ChartTypes :
                          recreate_chart(data, StoredAs(charts[i], type))
                             = generate_chart(pd_DataFrame(data), type, charts[i].x,
                                   charts[i].y, Some(charts[i].title), charts[i].use_color,
                                   charts[i].height, charts[i].show_grid)

\* a session with a pie chart drawn without grid at height 300 was saved
C8_Witness ==
    /\ SavedNow /\ current_session_id # None
    /\ Len(charts) >= 1
    /\ charts[1].type = "pie" /\ ~charts[1].show_grid /\ charts[1].height = 300
    /\ Len(load_session(db, current_session_id[1])[1].charts.v) = Len(charts)

\* C9: saving a session whose dataset came from an uploaded file and then
\* loading it by the returned id restores a dataset with the same column
\* names and the same rows.
C9_SaveLoadRestoresData ==
    (SavedNow /\ data.t = "DataFrame") =>
        LET session == load_session(db, current_session_id[1])
        IN /\ session # None
           /\ pd_DataFrame(session[1].data).columns = data.columns
           /\ pd_DataFrame(session[1].data).rows = data.rows

\* a JSON upload that parses, handed to load_file with its stream at the start
JsonLoaded ==
    /\ loaded # None
    /\ loaded[1].file.name \in JsonNames
    /\ loaded[1].file.pos = 0
    /\ loaded[1].file.content.utf8 /\ loaded[1].file.content.parses

AllObjects(items) == \A i \in 1..Len(items) : items[i].j = "object"

\* the table has n rows
GivesRows(res, n) == ~res.raised /\ res.value.t = "DataFrame" /\ Len(res.value.rows) = n

\* the load failed in the json branch
ParseFails(res) == res.raised /\ res.error = "Error loading JSON file"

\* an array is read as one row per element when its elements are objects and
\* is refused when one of them is not
ArrayOfRecords(res, items) ==
    IF AllObjects(items) THEN GivesRows(res, Len(items)) ELSE ParseFails(res)

\* C11: for a JSON upload load_file dispatches on the root value: a root
\* array gives one row per element; a root object whose 'data' member is an
\* array gives one row per element of that array; any other root object gives
\* exactly one row; every other shape, a scalar root or an array of
\* non-objects, fails with a parse error and gives no table.
C11_JsonDispatch ==
    JsonLoaded =>
        LET root == loaded[1].file.content.root
            res == loaded[1].res
        IN IF root.j = "array" THEN ArrayOfRecords(res, root.items)
           ELSE IF root.j = "object"
           THEN IF "data" \in DOMAIN root.members /\ root.members["data"].j = "array"
                THEN ArrayOfRecords(res, root.members["data"].items)
                ELSE GivesRows(res, 1)
           ELSE ParseFails(res)

\* a CSV upload handed to load_file with its stream at the start
CsvLoaded ==
    /\ loaded # None
    /\ loaded[1].file.name \in CsvNames
    /\ loaded[1].file.pos = 0

\* the file read from its first line to its last: its header and all its rows
WholeReading(f) == parse_lines(f.content.header, f.content.lines)

\* C12: for a CSV upload the Latin-1 parse is attempted only after the UTF-8
\* parse failed with a decoding error, and it parses the whole content from
\* its beginning: a file that is not valid UTF-8 loads with the header and
\* all the rows of its Latin-1 reading; load_file fails only if both attempts
\* fail or the UTF-8 attempt fails for a reason other than decoding.
C12_Latin1Fallback ==
    CsvLoaded =>
        LET f == loaded[1].file
            res == loaded[1].res
        IN IF f.content.utf8
           THEN IF WholeReading(f).raised
                THEN res.raised /\ res.error = "Error loading CSV file"
                ELSE res = WholeReading(f)
           ELSE IF WholeReading(f).raised
                THEN res.raised /\ res.error = "Failed to parse CSV file"
                ELSE res = WholeReading(f)

\* the records a valid JSON document holds, each as its keys and cells in the
\* order the document writes them: the elements of a root array or of a
\* 'data' array with nested objects opened up, any other root object as it is
DocumentRecords(root) ==
    LET opened(items) == [i \in 1..Len(items) |->
                             normalise_members(items[i], items[i].keys, "")]
    IN IF root.j = "array" THEN opened(root.items)
       ELSE IF "data" \in DOMAIN root.members /\ root.members["data"].j = "array"
       THEN opened(root.members["data"].items)
       ELSE << [i \in 1..Len(root.keys) |->
                  [key |-> root.keys[i], cell |-> json_loads(root.members[root.keys[i]])]] >>

\* a JSON document the loader is meant to take: an array of objects, an
\* object with such an array under 'data', or any other object
ValidJson(root) ==
    \/ root.j = "array" /\ AllObjects(root.items)
    \/ /\ root.j = "object"
       /\ ("data" \in DOMAIN root.members /\ root.members["data"].j = "array")
              => AllObjects(root.members["data"].items)

\* every row has a cell in every column and in nothing else
Rectangular(d) ==
    \A i \in 1..Len(d.rows) : DOMAIN d.rows[i] = {d.columns[k] : k \in 1..Len(d.columns)}

\* a valid upload was handed to load_file
ValidLoaded ==
    \/ CsvLoaded /\ ~WholeReading(loaded[1].file).raised
    \/ JsonLoaded /\ ValidJson(loaded[1].file.content.root)

\* C13: for every valid CSV or JSON input, JSON arrays whose records have
\* different key sets included, load_file returns a table in which every
\* column has exactly row_count cells, absent keys filled with null, and the
\* columns stand in first-encountered key order for JSON and in header order
\* for CSV.
C13_RectangularInOrder ==
    ValidLoaded =>
        LET f == loaded[1].file
            res == loaded[1].res
        IN /\ ~res.raised
           /\ Rectangular(res.value)
           /\ IF f.content.kind = "csv"
              THEN /\ res.value.columns = f.content.header
                   /\ Len(res.value.rows) = Len(f.content.lines)
              ELSE LET records == DocumentRecords(f.content.root)
                   IN /\ res.value.columns = first_seen(records, <<>>)
                      /\ Len(res.value.rows) = Len(records)
                      /\ \A i \in 1..Len(records) : \A c \in DOMAIN res.value.rows[i] :
                            res.value.rows[i][c] =
                                IF cell_at(records[i], c) = None THEN NaN
                                ELSE cell_at(records[i], c)[1]

(***************************************************************************)
(* The analysis summary.                                                   *)
(***************************************************************************)
\* analyze_data has answered for the frame
Analyzed == analysis # PyNone

\* a container as the summary is specified for: every cell is text, a
\* number, a truth value or null
Container(d) ==
    \A r \in 1..Len(d.rows), i \in 1..Len(d.columns) :
        d.rows[r][d.columns[i]].t \in {"str", "int", "float", "bool", "NoneType"}

\* a column that holds a number or NaN in some row
HasNumbers(d, col) == \E r \in 1..Len(d.rows) : d.rows[r][col].t \in {"int", "float"}

NumericColumns(d) == {col \in {d.columns[i] : i \in 1..Len(d.columns)} : HasNumbers(d, col)}

\* the keys of the summary that are made for numeric columns only
NumericKeys == {"numeric_summary", "correlation", "potential_outliers", "distribution"}

\* C14: analyze_data never fails on a container without numeric columns,
\* and its result then has none of the keys numeric_summary, correlation,
\* potential_outliers and distribution; it never fails on a container
\* without rows, and row_count is then 0.
C14_NoNumbersNoRows ==
    (Analyzed /\ Container(df)) =>
        /\ NumericColumns(df) = {} =>
              /\ ~analysis.raised
              /\ DOMAIN analysis.value.v \cap NumericKeys = {}
        /\ Len(df.rows) = 0 =>
              /\ ~analysis.raised
              /\ analysis.value.v.row_count = PyInt(0)

\* a frame of one text column and several rows was analyzed
C14_Witness ==
    /\ Analyzed /\ Container(df)
    /\ df.columns = <<"name">> /\ Len(df.rows) >= 2
    /\ NumericColumns(df) = {}
    /\ ~analysis.raised
    /\ "categorical_summary" \in DOMAIN analysis.value.v

\* the summary analyze_data returned
Summary == analysis.value.v

\* a summary was returned for a container
Summarized == Analyzed /\ Container(df) /\ ~analysis.raised

\* the correlation entry is there exactly for 2 numeric columns or more, and
\* is then a symmetric matrix over the numeric columns
CorrelationMatrix ==
    /\ ("correlation" \in DOMAIN Summary) <=> (Cardinality(NumericColumns(df)) >= 2)
    /\ "correlation" \in DOMAIN Summary =>
          /\ {Summary.correlation.columns[i] : i \in 1..Len(Summary.correlation.columns)}
                = NumericColumns(df)
          /\ DOMAIN Summary.correlation.rows = NumericColumns(df)
          /\ \A a \in NumericColumns(df), b \in NumericColumns(df) :
                Summary.correlation.rows[a][b] = Summary.correlation.rows[b][a]

\* a column that holds two different numbers
Varies(d, col) ==
    \E r \in 1..Len(d.rows), s \in 1..Len(d.rows) :
        /\ ~isnull(d.rows[r][col]) /\ ~isnull(d.rows[s][col])
        /\ d.rows[r][col].v # d.rows[s][col].v

\* C15 as claimed: the correlation entry is present exactly when there are
\* at least 2 numeric columns, is then a symmetric matrix over the numeric
\* columns, and every diagonal entry is 1.0.
C15_UnitDiagonal ==
    Summarized =>
        /\ CorrelationMatrix
        /\ "correlation" \in DOMAIN Summary =>
              \A a \in NumericColumns(df) : Summary.correlation.rows[a][a] = PyFloat(100)

\* C15 amended: the correlation entry is present exactly when there are at
\* least 2 numeric columns and is then a symmetric matrix over the numeric
\* columns; the diagonal entry of a column is 1.0 when the column holds two
\* different numbers, and NaN when it does not.
C15_DiagonalOfVaryingColumns ==
    Summarized =>
        /\ CorrelationMatrix
        /\ "correlation" \in DOMAIN Summary =>
              \A a \in NumericColumns(df) :
                  Summary.correlation.rows[a][a] = IF Varies(df, a) THEN PyFloat(100) ELSE NaN

\* a frame of a column that varies and a column that does not was analyzed
C15_Witness ==
    /\ Summarized
    /\ df.columns = <<"x", "y">>
    /\ Varies(df, "x") /\ ~Varies(df, "y") /\ Len(dropna(column(df, "y"))) >= 2
    /\ "correlation" \in DOMAIN Summary
    /\ Summary.correlation.rows["x"]["x"] = PyFloat(100)
    /\ Summary.correlation.rows["y"]["y"] = NaN

\* the null cells of a column
Nulls(d, col) == {r \in 1..Len(d.rows) : isnull(d.rows[r][col])}

\* a quartile of the numbers xs in quarters: the order
\* statistic at a whole position, else the value the given share of the way
\* from the one below to the one above
Quartile(xs, q4) ==
    LET below(x) == Cardinality({i \in 1..Len(xs) : xs[i] < x})
        upto(x) == Cardinality({i \in 1..Len(xs) : xs[i] <= x})
        \* the k-th smallest number, k counted from 0
        kth(k) == CHOOSE x \in {xs[i] : i \in 1..Len(xs)} : below(x) <= k /\ k < upto(x)
        pos4 == (Len(xs) - 1) * q4
        whole == pos4 \div 4
    IN IF pos4 % 4 = 0 THEN 4 * kth(whole)
       ELSE (4 - (pos4 % 4)) * kth(whole) + (pos4 % 4) * kth(whole + 1)

\* the rows of a column that the IQR rule calls outliers: a number x with
\* x < Q1 - 1.5 IQR or x > Q3 + 1.5 IQR, compared in eighths
Outliers(d, col) ==
    LET xs == values(column(d, col))
        q1 == Quartile(xs, 1)
        q3 == Quartile(xs, 3)
    IN IF xs = <<>> THEN {}
       ELSE {r \in 1..Len(d.rows) :
               /\ ~isnull(d.rows[r][col])
               /\ \/ 8 * d.rows[r][col].v < 2 * q1 - 3 * (q3 - q1)
                  \/ 8 * d.rows[r][col].v > 2 * q3 + 3 * (q3 - q1)}

\* the columns that a mapping of the summary has to hold
WithNulls(d) == {col \in {d.columns[i] : i \in 1..Len(d.columns)} : Nulls(d, col) # {}}
WithOutliers(d) == {col \in NumericColumns(d) : Outliers(d, col) # {}}

\* a mapping of the summary holds exactly the given columns, each with its
\* count, and is absent when there is none
Sparse(key, cols, count(_)) ==
    /\ (key \in DOMAIN Summary) <=> (cols # {})
    /\ key \in DOMAIN Summary =>
          /\ {Summary[key].keys[i] : i \in 1..Len(Summary[key].keys)} = cols
          /\ \A col \in cols : Summary[key].v[col] = PyInt(count(col))
          /\ \A col \in cols : Summary[key].v[col].v > 0

\* C16: missing_values holds exactly the columns with a null, each with its
\* null count, and potential_outliers exactly the numeric columns with an
\* outlier; neither holds a zero count, and each is absent from the summary
\* when no column qualifies.
C16_SparseSummary ==
    Summarized =>
        /\ Sparse("missing_values", WithNulls(df), LAMBDA col : Cardinality(Nulls(df, col)))
        /\ Sparse("potential_outliers", WithOutliers(df),
                  LAMBDA col : Cardinality(Outliers(df, col)))

\* a frame with nulls in one of its two columns only was analyzed
C16_Witness ==
    /\ Summarized
    /\ Len(df.columns) = 2
    /\ Cardinality(WithNulls(df)) = 1
    /\ "missing_values" \in DOMAIN Summary
    /\ Len(Summary.missing_values.keys) = 1

\* the outlier count the summary records for a column; a column that is not
\* in potential_outliers has none
RecordedOutliers(col) ==
    IF "potential_outliers" \in DOMAIN Summary /\ col \in DOMAIN Summary.potential_outliers.v
    THEN Summary.potential_outliers.v[col].v
    ELSE 0

\* the rows of a column whose number differs from x, in quarters
DifferentFrom(d, col, x4) ==
    {r \in 1..Len(d.rows) : ~isnull(d.rows[r][col]) /\ 4 * d.rows[r][col].v # x4}

\* C17: the outlier count of a numeric column is the number of its non-null
\* values strictly below Q1 - 1.5 IQR or strictly above Q3 + 1.5 IQR; it is
\* never negative, and for a column with IQR = 0 it is the number of values
\* different from Q1 = Q3.
C17_OutlierCount ==
    Summarized =>
        \A col \in NumericColumns(df) :
            LET xs == values(column(df, col))
            IN /\ RecordedOutliers(col) = Cardinality(Outliers(df, col))
               /\ RecordedOutliers(col) >= 0
               /\ (xs # <<>> /\ Quartile(xs, 1) = Quartile(xs, 3)) =>
                     RecordedOutliers(col)
                        = Cardinality(DifferentFrom(df, col, Quartile(xs, 1)))

\* a column with IQR = 0 and a value off the quartiles was analyzed
C17_Witness ==
    /\ Summarized
    /\ df.columns = <<"sales">> /\ values(column(df, "sales")) # <<>>
    /\ Quartile(values(column(df, "sales")), 1) = Quartile(values(column(df, "sales")), 3)
    /\ DifferentFrom(df, "sales", Quartile(values(column(df, "sales")), 1)) # {}
    /\ RecordedOutliers("sales") = 1

\* the columns that are not numeric
TextColumns(d) == {d.columns[i] : i \in 1..Len(d.columns)} \ NumericColumns(d)

\* the rows of a column that hold a value, and the first of them
RowsOf(d, col, value) ==
    {r \in 1..Len(d.rows) : ~isnull(d.rows[r][col]) /\ d.rows[r][col].v = value}
FirstRow(d, col, value) ==
    CHOOSE r \in RowsOf(d, col, value) : \A s \in RowsOf(d, col, value) : r <= s

\* value a is more frequent than value b
MoreFrequent(d, col, a, b) == Cardinality(RowsOf(d, col, a)) > Cardinality(RowsOf(d, col, b))

\* a and b are equally frequent and a is met first
TieBefore(d, col, a, b) ==
    /\ Cardinality(RowsOf(d, col, a)) = Cardinality(RowsOf(d, col, b))
    /\ FirstRow(d, col, a) < FirstRow(d, col, b)

\* what categorical_summary holds for a column
TopKeys(col) == Summary.categorical_summary.v[col].v.top_values.keys
TopCounts(col) == Summary.categorical_summary.v[col].v.top_values.v
Shown(col) == {TopKeys(col)[i] : i \in 1..Len(TopKeys(col))}

\* unique_values is the number of distinct non-null values, and top_values
\* holds 10 of them, or all when there are fewer, with their exact counts,
\* no value twice and none of them null
CountsExact(d, col) ==
    /\ Summary.categorical_summary.v[col].v.unique_values = PyInt(Cardinality(Distinct(d, col)))
    /\ Len(TopKeys(col)) = (IF Cardinality(Distinct(d, col)) < 10 THEN Cardinality(Distinct(d, col))
                            ELSE 10)
    /\ Cardinality(Shown(col)) = Len(TopKeys(col))
    /\ Shown(col) \subseteq Distinct(d, col)
    /\ \A value \in Shown(col) : TopCounts(col)[value] = PyInt(Cardinality(RowsOf(d, col, value)))

\* C18 as claimed: for each non-numeric column unique_values is the number
\* of distinct non-null values and top_values holds at most 10 values, the
\* most frequent ones with their exact counts, in descending order of count
\* with ties in first-encountered order; nulls are not counted as a value.
C18_TiesInFirstEncounteredOrder ==
    (Summarized /\ TextColumns(df) # {}) =>
        \A col \in TextColumns(df) :
            /\ CountsExact(df, col)
            /\ \A i \in 1..Len(TopKeys(col)), j \in 1..Len(TopKeys(col)) :
                  i < j => \/ MoreFrequent(df, col, TopKeys(col)[i], TopKeys(col)[j])
                           \/ TieBefore(df, col, TopKeys(col)[i], TopKeys(col)[j])
            /\ \A a \in Shown(col), b \in Distinct(df, col) \ Shown(col) :
                  MoreFrequent(df, col, a, b) \/ TieBefore(df, col, a, b)

\* C18 amended: for each non-numeric column unique_values is the number of
\* distinct non-null values and top_values holds at most 10 values with
\* their exact counts, in descending order of count, no value left out being
\* more frequent than a value kept; the order among equally frequent values
\* is not fixed; nulls are not counted as a value.
C18_TopValuesByCount ==
    (Summarized /\ TextColumns(df) # {}) =>
        \A col \in TextColumns(df) :
            /\ CountsExact(df, col)
            /\ \A i \in 1..Len(TopKeys(col)), j \in 1..Len(TopKeys(col)) :
                  i < j => ~MoreFrequent(df, col, TopKeys(col)[j], TopKeys(col)[i])
            /\ \A a \in Shown(col), b \in Distinct(df, col) \ Shown(col) :
                  ~MoreFrequent(df, col, b, a)

\* a column of 11 distinct values was analyzed, and of two equally frequent
\* values the one met later comes first in top_values
C18_Witness ==
    /\ Summarized
    /\ df.columns = <<"name">> /\ Cardinality(Distinct(df, "name")) = 11
    /\ Len(TopKeys("name")) = 10
    /\ \E i \in 1..10, j \in 1..10 :
          i < j /\ TieBefore(df, "name", TopKeys("name")[j], TopKeys("name")[i])

\* what distribution holds for a column
Recorded(col) == Summary.distribution.v[col].v

\* a recorded value is a number of absolute value below 0.5, in hundredths
BelowHalf(x) == x # NaN /\ x.v * 1000 < NormalLimit /\ 0 - (x.v * 1000) < NormalLimit

\* a recorded value is a number of absolute value at most 0.5
AtMostHalf(x) == x # NaN /\ x.v * 1000 <= NormalLimit /\ 0 - (x.v * 1000) <= NormalLimit

\* C19 as claimed: in every distribution entry is_normal is true exactly
\* when the skewness and the kurtosis recorded in the entry, rounded to 2
\* decimals, both have an absolute value strictly below 0.5.
C19_NormalByRecordedValues ==
    (Summarized /\ NumericColumns(df) # {}) =>
        \A col \in NumericColumns(df) :
            Recorded(col).is_normal.v
                <=> (BelowHalf(Recorded(col).skewness) /\ BelowHalf(Recorded(col).kurtosis))

\* C19 amended: is_normal is decided on the skewness and kurtosis before
\* they are rounded: it is true when both recorded values have an absolute
\* value strictly below 0.5, and it is true only when both are numbers of
\* absolute value at most 0.5; at a recorded 0.5 it can be either.
C19_NormalByUnroundedValues ==
    (Summarized /\ NumericColumns(df) # {}) =>
        \A col \in NumericColumns(df) :
            /\ (BelowHalf(Recorded(col).skewness) /\ BelowHalf(Recorded(col).kurtosis))
                  => Recorded(col).is_normal.v
            /\ Recorded(col).is_normal.v
                  => (AtMostHalf(Recorded(col).skewness) /\ AtMostHalf(Recorded(col).kurtosis))

\* a column whose skewness is recorded as 0.5 was analyzed and is_normal is
\* true
C19_Witness ==
    /\ Summarized
    /\ "sales" \in NumericColumns(df)
    /\ Recorded("sales").skewness = PyFloat(50)
    /\ BelowHalf(Recorded("sales").kurtosis)
    /\ Recorded("sales").is_normal.v

\* a text column and a numeric column of the frame
Pairs(d) == TextColumns(d) \X NumericColumns(d)

\* the summary holds a bar recommendation for a text and a numeric column
BarRecommended(a, d) ==
    /\ "recommendations" \in DOMAIN a.v
    /\ \E i \in 1..Len(a.v["recommendations"].v) :
          LET rec == a.v["recommendations"].v[i].v
          IN /\ rec["chart_type"].v = "bar"
             /\ <<rec["columns"].v[1].v, rec["columns"].v[2].v>> \in Pairs(d)

\* C20: the summary of a dataset with a categorical and a numeric column
\* holds recommendation records, a bar record for such a pair among them,
\* and "Generate Recommended Charts" on the dataset creates charts from
\* them instead of reporting that there are none.
C20_RecommendedCharts ==
    (data.t = "DataFrame" /\ Pairs(data) # {} /\ analysis.t = "dict") =>
        /\ BarRecommended(analysis, data)
        /\ ~IsIn(message, NoRecommendations)

\* the last run of the script was a click on "Create Multiple Charts" that
\* went through the combinations
BulkRun == \E n \in 0..MaxCharts : message' = <<Created(n)>>

\* the combinations of a selected chart type, X column and Y column
Selected ==
    {c \in [chart_type : {widgets.selected_types[i] : i \in 1..Len(widgets.selected_types)},
            x_col : {widgets.x_columns[i] : i \in 1..Len(widgets.x_columns)},
            y_col : {widgets.y_columns[i] : i \in 1..Len(widgets.y_columns)}] : TRUE}

\* a chart can be built for a combination
Buildable(c) ==
    ~generate_chart(pd_DataFrame(data), c.chart_type, c.x_col, c.y_col, None, TRUE, 400,
                    TRUE).raised

\* the charts a run appended
Appended == SubSeq(charts', Len(charts) + 1, Len(charts'))

\* C21: in bulk chart creation a combination whose chart cannot be built
\* adds nothing and does not keep the other combinations from being tried:
\* the charts appended are those of exactly the combinations that can be
\* built; the charts present before are unchanged and keep their order,
\* and the count reported is the number of charts appended.
C21_BulkCreation ==
    [][BulkRun =>
         /\ Len(charts') >= Len(charts)
         /\ SubSeq(charts', 1, Len(charts)) = charts
         /\ message' = <<Created(Len(charts') - Len(charts))>>
         /\ Len(Appended) = Cardinality({c \in Selected : Buildable(c)})
         /\ {[chart_type |-> Appended[i].type, x_col |-> Appended[i].x,
              y_col |-> Appended[i].y] : i \in 1..Len(Appended)}
               = {c \in Selected : Buildable(c)}]_vars

\* a bulk run whose first combination cannot be built appended the chart of
\* the second one behind a chart that was there before
C21_Witness ==
    /\ message = <<Created(1)>>
    /\ widgets.selected_types = <<"pie">> /\ widgets.y_columns = <<"name", "sales">>
    /\ Len(charts) = 2
    /\ charts[2].type = "pie" /\ charts[2].x = "name" /\ charts[2].y = "sales"

\* the user who owns the stored session of the id given
OwnerOf(table, id) == table.sessions[id].user_id

\* C22: after every step of register, login, logout, create-new, load,
\* upload and save by any users, current_session_id is unset when nobody is
\* signed in and otherwise unset or the id of a stored session the signed-in
\* user owns, and user_sessions of a signed-in user lists stored sessions of
\* that user only; no step changes a stored session of a user other than the
\* one signed in, and a step that loads a session puts the data of a session
\* of the signed-in user on the page.
C22_OwnSessionsOnly ==
    [][/\ user' = None => current_session_id' = None
       /\ user' # None =>
            /\ current_session_id' # None =>
                 /\ current_session_id'[1] \in 1..Len(db'.sessions)
                 /\ OwnerOf(db', current_session_id'[1]) = user'[1].id
            /\ \A i \in 1..Len(user_sessions') :
                 /\ user_sessions'[i].id \in 1..Len(db'.sessions)
                 /\ OwnerOf(db', user_sessions'[i].id) = user'[1].id
       /\ \A id \in 1..Len(db.sessions) :
            (user = None \/ OwnerOf(db, id) # user[1].id) =>
                /\ id \in 1..Len(db'.sessions)
                /\ db'.sessions[id] = db.sessions[id]
       /\ (current_session_id' # None /\ current_session_id' # current_session_id
           /\ db' = db) =>
            /\ OwnerOf(db, current_session_id'[1]) = user[1].id
            /\ data' = json_loads(db.sessions[current_session_id'[1]].data)
      ]_vars

\* the second user is signed in and has saved a session while a session of
\* the first user is stored
C22_Witness ==
    /\ user # None
    /\ Len(db.sessions) = 2
    /\ OwnerOf(db, 1) # user[1].id
    /\ current_session_id = Some(2)
    /\ OwnerOf(db, 2) = user[1].id
    /\ Len(user_sessions) = 1 /\ user_sessions[1].id = 2

\* the step is a click on "Save Visualization" that save_session answered
\* with an id
SaveStep == IsIn(message', Say("success", "Visualization saved successfully!"))

\* the step is a click on "Save Visualization" that failed: the commit
\* raised, or json.dumps did
FailedSaveStep ==
    \/ IsIn(message', Say("error", "Failed to save visualization."))
    \/ IsIn(message', Say("exception", "TypeError: Object of type bool_ is not JSON serializable"))

\* what save_session stores of the page
StoredOf(row) == [data |-> row.data, analysis |-> row.analysis, charts |-> row.charts]

PageStored ==
    [data |-> json_dumps(clean_data_of(data)),
     analysis |-> json_dumps(clean_analysis_of(analysis)),
     charts |-> json_dumps(chart_configs_of(charts))]

\* C23: a save whose current_session_id names a stored session rewrites
\* that session and no other and leaves the number of stored sessions and
\* current_session_id as they were, so that saves that follow a save add
\* nothing; a save with current_session_id unset, as it is after Create New
\* Session, adds exactly one session that holds the page, leaves every
\* stored session as it was and makes the new one current; a failed save
\* leaves the stored sessions and current_session_id unchanged, and no
\* other step writes a stored session.
C23_SaveInPlaceOrNew ==
    [][/\ (SaveStep /\ current_session_id # None) =>
            /\ current_session_id[1] \in 1..Len(db.sessions)
            /\ Len(db'.sessions) = Len(db.sessions)
            /\ current_session_id' = current_session_id
            /\ \A id \in 1..Len(db.sessions) :
                 IF id = current_session_id[1]
                 THEN /\ db'.sessions[id].id = id
                      /\ db'.sessions[id].user_id = db.sessions[id].user_id
                      /\ StoredOf(db'.sessions[id]) = PageStored
                 ELSE db'.sessions[id] = db.sessions[id]
       /\ (SaveStep /\ current_session_id = None) =>
            /\ Len(db'.sessions) = Len(db.sessions) + 1
            /\ current_session_id' = Some(Len(db.sessions) + 1)
            /\ \A id \in 1..Len(db.sessions) : db'.sessions[id] = db.sessions[id]
            /\ db'.sessions[Len(db.sessions) + 1].user_id = user[1].id
            /\ StoredOf(db'.sessions[Len(db.sessions) + 1]) = PageStored
       /\ FailedSaveStep => (db' = db /\ current_session_id' = current_session_id)
       /\ ~SaveStep => db'.sessions = db.sessions
      ]_vars

\* two sessions are stored and the first was saved again after the second
\* was created; it is the current session
C23_Witness ==
    /\ SavedNow
    /\ Len(db.sessions) = 2
    /\ db.recency = <<1, 2>>
    /\ current_session_id = Some(1)

\* the chart entry holds the figure generate_chart builds for its request
\* from the dataset given
BuiltFrom(c, d) ==
    /\ d.t # "NoneType"
    /\ LET built == generate_chart(pd_DataFrame(d), c.type, c.x, c.y, Some(c.title),
                                   c.use_color, c.height, c.show_grid)
       IN ~built.raised /\ built.value = c.figure

\* C24: in every reachable state of the application every chart of the
\* charts list is the chart of the dataset the session state holds: after an
\* upload, a new session or a logout no chart built from a dataset held
\* before is left in the list.
C24_ChartsOfHeldData == \A i \in 1..Len(charts) : BuiltFrom(charts[i], data)

\* the step is a run of the script that found a new file in the uploader
UploadStep == uploaded_file = None /\ uploaded_file' # None

\* the file as it was put into the uploader, before it was read
PutIn == [uploaded_file'[1] EXCEPT !.pos = 0]

\* the summaries analyze_data may return for a loaded dataset
SummariesOf(d) ==
    {analyze_data(d, build).value : build \in {b \in Builds : ~analyze_data(d, b).raised}}

\* load_file and analyze_data both succeed on the file
LoadsAndAnalyzes(f) == ~load_file(f).raised /\ SummariesOf(load_file(f).value) # {}

ErrorShown(shown) == \E i \in 1..Len(shown) : shown[i].level = "error"

\* C25: an upload step on which load_file and analyze_data both succeed
\* replaces data and analysis by what they returned and reports success
\* with the row and column counts and no error; a step that reports an
\* error is one on which loading or analysis failed, and it leaves data and
\* analysis as they were before the upload.
C25_UploadReports ==
    [][UploadStep =>
         /\ LoadsAndAnalyzes(PutIn) =>
              /\ data' = load_file(PutIn).value
              /\ analysis' \in SummariesOf(data')
              /\ IsIn(message', FileLoaded(Len(data'.rows), Len(data'.columns)))
              /\ ~ErrorShown(message')
         /\ ErrorShown(message') =>
              /\ ~LoadsAndAnalyzes(PutIn)
              /\ data' = data
              /\ analysis' = analysis
      ]_vars

====
